---- MODULE Spec2Model ----
(***************************************************************************)
(* A model of the mesh data model of 3dconv: Face (src/src/model/face.cpp) *)
(* and Model (src/src/model/model.cpp).                                    *)
(*                                                                         *)
(* Coordinates are small integers.  On such values every float operation   *)
(* the code performs (differences, products, sums, comparisons) is exact,  *)
(* except the division by the norm in a Normalize::Yes cross product.      *)
(* A normalised vector is therefore represented by its direction: the      *)
(* integer vector divided by the gcd of its components.  Normalising the   *)
(* zero vector divides 0 by 0 and yields NaN in every component; that      *)
(* value is represented by the zero vector, which no normalised vector     *)
(* equals, and every comparison that involves it is false, as with NaN.    *)
(***************************************************************************)
EXTENDS Integers, Sequences, FiniteSets, TLC

(* ------------------------------ bounds -------------------------------- *)

\* Largest vertex index a ring may name where faces are added to a mesh
\* without vertices (SpecDedup).
MaxIdx == 4
\* Longest such ring.
MaxRing == 4
\* add_face is not called any more once the container holds this many faces.
MaxFaces == 3
\* add_vertex is not called any more once the mesh holds this many vertices.
MaxVerts == 7
\* add_texture_vertex and add_vertex_normal are not called any more once
\* their array holds this many elements.
MaxAux == 1
\* transform is not called with a matrix that takes a coordinate beyond
\* this magnitude.
MaxCoord == 2
\* add_vertex is not called any more once the mesh holds this many vertices
\* where the connectivity of large meshes is examined (SpecConn).
MaxConnVerts == 33

\* Face::add_vertex is not called with an index that makes the face the
\* caller holds name more vertices than this (SpecFace).
MaxHeld == 3
\* add_face is not called with the held face any more once the container
\* holds this many faces (SpecOwner).
MaxHeldFaces == 1

\* Bitsets are not constructed with more bits than this (SpecBits).
MaxBits == 65

\* The loop of triangulate is followed on rings of up to this many vertices
\* (SpecEar).
MaxEar == 16

(* --------------------------- small helpers ---------------------------- *)

Abs(x) == IF x < 0 THEN -x ELSE x

RECURSIVE Gcd(_, _)
Gcd(a, b) == IF b = 0 THEN a ELSE Gcd(b, a % b)

Range(s) == {s[i] : i \in 1..Len(s)}

\* The elements of a finite set of naturals in increasing order: the order
\* in which std::set<size_t> iterates.
SortedSeq(S) ==
    IF S = {} THEN <<>>
    ELSE LET max == CHOOSE x \in S : \A y \in S : y <= x
         IN  SelectSeq([i \in 1..(max + 1) |-> i - 1], LAMBDA x : x \in S)

\* std::lexicographical_compare on two sequences of naturals: at the first
\* position where they differ s holds the smaller element, or s ends
\* before t does and they differ nowhere.
LexLess(s, t) ==
    LET n    == IF Len(s) < Len(t) THEN Len(s) ELSE Len(t)
        diff == {k \in 1..n : s[k] # t[k]}
    IN  IF diff = {} THEN Len(s) < Len(t)
        ELSE LET k == CHOOSE x \in diff : \A y \in diff : x <= y
             IN  s[k] < t[k]

(* ------------------------------ vectors ------------------------------- *)

Zero3 == <<0, 0, 0>>

\* operator- on 4D vectors (linalg.hpp).
Sub4(a, b) == <<a[1] - b[1], a[2] - b[2], a[3] - b[3], a[4] - b[4]>>
Sub3(a, b) == <<a[1] - b[1], a[2] - b[2], a[3] - b[3]>>

\* vec_slice<0, 3>.
Slice3(a) == <<a[1], a[2], a[3]>>

\* cross_product with Normalize::No; of a 4D vector only the first three
\* components take part and the fourth component of the result is 0.
Cross(a, b) == <<a[2] * b[3] - a[3] * b[2],
                 a[3] * b[1] - a[1] * b[3],
                 a[1] * b[2] - a[2] * b[1]>>

Dot3(a, b) == a[1] * b[1] + a[2] * b[2] + a[3] * b[3]

\* The square of euclidean_norm of a 4D vector; the code compares the norms,
\* and the square root is monotone.
NormSq4(a) == a[1] * a[1] + a[2] * a[2] + a[3] * a[3] + a[4] * a[4]

\* The direction of a vector: what division by its norm keeps of it.  The
\* zero vector maps to itself, which stands for NaN.
Direction(a) ==
    LET g == Gcd(Gcd(Abs(a[1]), Abs(a[2])), Abs(a[3]))
    IN  IF g = 0 THEN Zero3 ELSE <<a[1] \div g, a[2] \div g, a[3] \div g>>

IsNaN(a) == a = Zero3

(* ------------------------------- Face --------------------------------- *)

\* The two meshes of the model: the mesh the operations are called on, and
\* another mesh that faces can be constructed for.
This == 1
Other == 2

\* Face::Face(model, vertices, texture_vertices, vertex_normals): the normal
\* is not marked as set.
NewFace(m, v, vt, vn) ==
    [model |-> m, v |-> v, vt |-> vt, vn |-> vn, nset |-> FALSE, n |-> Zero3]

\* Face::Face(orig_face, indices): the sub-face of the ring positions
\* `indices` (0-based) of orig_face.
SubFace(f, ind) ==
    [model |-> f.model,
     v     |-> [k \in 1..Len(ind) |-> f.v[ind[k] + 1]],
     vt    |-> IF f.vt = <<>> THEN <<>>
               ELSE [k \in 1..Len(ind) |-> f.vt[ind[k] + 1]],
     vn    |-> IF f.vn = <<>> THEN <<>>
               ELSE [k \in 1..Len(ind) |-> f.vn[ind[k] + 1]],
     nset  |-> FALSE,
     n     |-> Zero3]

\* Face::add_vertex_normal: append in every case.
AppendAlways(s, i) == Append(s, i)

\* Face::add_vertex and Face::add_texture_vertex: append if absent.
AppendUnique(s, i) == IF i \in Range(s) THEN s ELSE Append(s, i)

\* Face::operator< with a threshold of two shared indices instead of three.
FaceLessTwoShared(l, r) ==
    LET ls == Range(l.v)
        rs == Range(r.v)
    IN  /\ LexLess(SortedSeq(ls), SortedSeq(rs))
        /\ Cardinality(ls \cap rs) < 2

\* Face::operator<.
FaceLess(l, r) ==
    LET ls == Range(l.v)
        rs == Range(r.v)
    IN  /\ LexLess(SortedSeq(ls), SortedSeq(rs))
        /\ Cardinality(ls \cap rs) < 3

\* The equivalence std::set derives from operator<.
FaceEquiv(l, r) == ~FaceLess(l, r) /\ ~FaceLess(r, l)

\* The coordinates of ring position i (0-based) of a ring v.
RingPt(mv, v, i) == mv[v[i + 1] + 1]

\* Face::compute_normal, lines 157-172: the pair of ring positions with the
\* largest distance; the first such pair in loop order, and (0, 1) when all
\* distances are 0.
FarthestPair(mv, v) ==
    LET n     == Len(v)
        pairs == {p \in (0..n-1) \X (0..n-1) : p[1] < p[2]}
        d(p)  == NormSq4(Sub4(RingPt(mv, v, p[1]), RingPt(mv, v, p[2])))
        best  == {p \in pairs : \A q \in pairs : d(q) <= d(p)}
    IN  IF \A p \in pairs : d(p) = 0 THEN <<0, 1>>
        ELSE CHOOSE p \in best :
                \A q \in best : p[1] < q[1] \/ (p[1] = q[1] /\ p[2] <= q[2])

\* Face::compute_normal, lines 174-187: the ring position furthest from the
\* line through the pair; 2 when no position has a distance above 0, which
\* is also the case when the line normal is NaN.  The distances are computed
\* with the normalised line normal: where several positions are exactly as
\* far, rounding decides which of them the strict comparison keeps, and
\* each of them is a possible result.
ThirdIndex(mv, v, n0, pair) ==
    LET v0      == RingPt(mv, v, pair[1])
        v1      == RingPt(mv, v, pair[2])
        ln      == Cross(n0, Sub4(v1, v0))
        proj(i) == Abs(Dot3(Sub4(RingPt(mv, v, i), v0), ln))
        pos     == 0..(Len(v) - 1)
    IN  IF IsNaN(ln) \/ \A i \in pos : proj(i) = 0 THEN {2}
        ELSE {i \in pos : \A j \in pos : proj(j) <= proj(i)}

\* Lines 189-199: the cross product of the three selected positions, taken
\* in increasing order.
SelectedNormal(mv, v, pair, i2) ==
    LET a  == IF pair[1] < i2 THEN pair[1] ELSE i2
        c  == IF pair[2] > i2 THEN pair[2] ELSE i2
        b  == pair[1] + pair[2] + i2 - a - c
        q0 == RingPt(mv, v, a)
    IN  Cross(Sub4(RingPt(mv, v, b), q0), Sub4(RingPt(mv, v, c), q0))

\* Face::compute_normal with Normalize::No: the cross product of the first
\* three ring vertices of a triangle, and of the three selected positions
\* of a longer ring.  The set of the possible results.
ComputeNormalRaw(mv, v) ==
    LET p0 == RingPt(mv, v, 0)
        n0 == Cross(Sub4(RingPt(mv, v, 1), p0), Sub4(RingPt(mv, v, 2), p0))
    IN  IF Len(v) = 3 THEN {n0}
        ELSE LET pair == FarthestPair(mv, v)
             IN  {SelectedNormal(mv, v, pair, i2) :
                    i2 \in ThirdIndex(mv, v, n0, pair)}

\* Face::compute_normal with Normalize::Yes (the default).
ComputeNormal(mv, v) == {Direction(n) : n \in ComputeNormalRaw(mv, v)}

\* Face::normal: the cached normal if one is set, else a computed one.
Normal(mv, f) == IF f.nset THEN {f.n} ELSE ComputeNormal(mv, f.v)

\* The face after a call of Face::normal that returned nrm: it caches what
\* it computed.
WithNormal(f, nrm) == [f EXCEPT !.nset = TRUE, !.n = nrm]

\* Face::validate with a vertex index equal to the number of vertices taken
\* for a valid one.
FaceValidateOffByOne(f, owner_alive, nv, nt, nn) ==
    IF Len(f.v) < 3 THEN "Face must contain at least 3 vertices."
    ELSE IF Len(f.vt) # 0 /\ Len(f.vt) # Len(f.v)
        THEN "Face must either contain no texture vertices or the same number of texture vertices as geometric vertices."
    ELSE IF Len(f.vn) # 0 /\ Len(f.vn) # Len(f.v)
        THEN "Face must either contain no vertex normals or the same number of vertex normals as geometric vertices."
    ELSE IF ~owner_alive THEN "The associated Model object has been expired."
    ELSE IF \E i \in Range(f.v) : i > nv THEN "Invalid vertex index."
    ELSE IF \E i \in Range(f.vt) : i >= nt THEN "Invalid texture vertex index."
    ELSE IF \E i \in Range(f.vn) : i >= nn THEN "Invalid vertex normal index."
    ELSE "ok"

\* Face::validate: the message of the ModelError it throws, or "ok".
\* nv, nt, nn are the sizes of the three arrays of the face's mesh.
FaceValidate(f, owner_alive, nv, nt, nn) ==
    IF Len(f.v) < 3 THEN "Face must contain at least 3 vertices."
    ELSE IF Len(f.vt) # 0 /\ Len(f.vt) # Len(f.v)
        THEN "Face must either contain no texture vertices or the same number of texture vertices as geometric vertices."
    ELSE IF Len(f.vn) # 0 /\ Len(f.vn) # Len(f.v)
        THEN "Face must either contain no vertex normals or the same number of vertex normals as geometric vertices."
    ELSE IF ~owner_alive THEN "The associated Model object has been expired."
    ELSE IF \E i \in Range(f.v) : i >= nv THEN "Invalid vertex index."
    ELSE IF \E i \in Range(f.vt) : i >= nt THEN "Invalid texture vertex index."
    ELSE IF \E i \in Range(f.vn) : i >= nn THEN "Invalid vertex normal index."
    ELSE "ok"

(* ------------------------- the face container ------------------------- *)

(* std::set<Face> is a balanced search tree ordered by Face::operator<,     *)
(* which is no strict weak ordering: faces that share three indices are     *)
(* equivalent to each other without being equivalent to the same faces.     *)
(* What an insertion compares the new face with then depends on the shape   *)
(* of the tree and on the library.  The container is modelled by its        *)
(* in-order sequence, and an insertion may descend through any search tree  *)
(* over that sequence, in each of the three ways the libraries do it.       *)

Reject == -1

\* Whether S holds the first positions after lo and no other: the descents
\* below go right at the positions of S, so that they end after the last of
\* them whatever the shape of the tree.
Leading(S, lo) == S = (lo + 1)..(lo + Cardinality(S))

RECURSIVE DescendLess(_, _, _, _)
\* libstdc++ _M_get_insert_unique_pos: go left when k < node, else right.
\* The positions (number of faces before the new one) the descent can end at.
DescendLess(s, k, lo, hi) ==
    LET right == {p \in (lo + 1)..hi : ~FaceLess(k, s[p])}
    IN  IF lo = hi THEN {lo}
        ELSE IF Leading(right, lo) THEN {lo + Cardinality(right)}
        ELSE UNION {IF FaceLess(k, s[p]) THEN DescendLess(s, k, lo, p - 1)
                    ELSE DescendLess(s, k, p, hi) : p \in (lo + 1)..hi}

RECURSIVE DescendEqual(_, _, _, _)
\* libc++ __find_equal: left when k < node, right when node < k, and the
\* node is taken as the key's duplicate when neither holds.
DescendEqual(s, k, lo, hi) ==
    LET right == {p \in (lo + 1)..hi :
                     ~FaceLess(k, s[p]) /\ FaceLess(s[p], k)}
        left  == {p \in (lo + 1)..hi : FaceLess(k, s[p])}
    IN  IF lo = hi THEN {lo}
        ELSE IF Leading(right, lo)
                /\ left = (hi - Cardinality(left) + 1)..hi
        THEN IF Cardinality(right) + Cardinality(left) = hi - lo
             THEN {lo + Cardinality(right)}
             ELSE {Reject}
        ELSE UNION {IF FaceLess(k, s[p]) THEN DescendEqual(s, k, lo, p - 1)
                    ELSE IF FaceLess(s[p], k) THEN DescendEqual(s, k, p, hi)
                    ELSE {Reject} : p \in (lo + 1)..hi}

RECURSIVE DescendBound(_, _, _, _)
\* MSVC _Find_lower_bound: right when node < k, else left.
DescendBound(s, k, lo, hi) ==
    LET right == {p \in (lo + 1)..hi : FaceLess(s[p], k)}
    IN  IF lo = hi THEN {lo}
        ELSE IF Leading(right, lo) THEN {lo + Cardinality(right)}
        ELSE UNION {IF FaceLess(s[p], k) THEN DescendBound(s, k, p, hi)
                    ELSE DescendBound(s, k, lo, p - 1) : p \in (lo + 1)..hi}

\* The positions at which std::set::insert can place k, and Reject where it
\* can find k to be a duplicate.
InsertPositions(s, k) ==
    LET n == Len(s)
    IN  {IF pos = 0 \/ FaceLess(s[pos], k) THEN pos ELSE Reject :
            pos \in DescendLess(s, k, 0, n)}
        \cup DescendEqual(s, k, 0, n)
        \cup {IF pos = n \/ FaceLess(k, s[pos + 1]) THEN pos ELSE Reject :
                pos \in DescendBound(s, k, 0, n)}

InsertAt(s, k, pos) ==
    IF pos = Reject THEN s
    ELSE SubSeq(s, 1, pos) \o <<k>> \o SubSeq(s, pos + 1, Len(s))

\* std::set::insert: the containers it can leave.
SetInsert(s, k) == {InsertAt(s, k, pos) : pos \in InsertPositions(s, k)}

RECURSIVE SetInsertAll(_, _)
\* The containers that inserting the faces of the sequence fs, in order,
\* can leave.
SetInsertAll(s, fs) ==
    IF fs = <<>> THEN {s}
    ELSE UNION {SetInsertAll(r, Tail(fs)) : r \in SetInsert(s, Head(fs))}

\* std::set::merge: every face of src, in src's order, is inserted.
SetMerge(s, src) == SetInsertAll(s, src)

\* std::set::find: lower_bound, and end() (0 here) unless the key is not
\* less than the face found.  The indices the lookup can return.
SetFind(s, k) ==
    {IF pos < Len(s) /\ ~FaceLess(k, s[pos + 1]) THEN pos + 1 ELSE 0 :
        pos \in DescendBound(s, k, 0, Len(s))}

(* ------------------------------- Model -------------------------------- *)

VARIABLES
    vertices,                \* Model::vertices_: 4D points
    texture_vertices,        \* Model::texture_vertices_: 3D points
    vertex_normals,          \* Model::vertex_normals_: 3D vectors
    faces,                   \* Model::faces_, in container order
    is_connected_,
    is_convex_,
    is_triangulated_,
    is_validated_,
    is_watertight_,
    recalc_connectivity_,
    recalc_convexity_,
    recalc_water_tightness_,
    alive,                   \* the meshes that have not been destroyed
    call                     \* the last call on the mesh and how it ended

vars == <<vertices, texture_vertices, vertex_normals, faces,
          is_connected_, is_convex_, is_triangulated_, is_validated_,
          is_watertight_, recalc_connectivity_, recalc_convexity_,
          recalc_water_tightness_, alive, call>>

arrays == <<vertices, texture_vertices, vertex_normals>>
cached == <<is_connected_, is_convex_, is_watertight_>>
recalc == <<recalc_connectivity_, recalc_convexity_, recalc_water_tightness_>>

NoFace == NewFace(This, <<>>, <<>>, <<>>)

\* What the mesh held when a call was made: its flags, its cached values
\* and the number of its faces.
Before ==
    [validated    |-> is_validated_,
     triangulated |-> is_triangulated_,
     recalc       |-> <<recalc_connectivity_, recalc_convexity_,
                        recalc_water_tightness_>>,
     cached       |-> <<is_connected_, is_convex_, is_watertight_>>,
     nfaces       |-> Len(faces)]

\* The record of a call: the operation, the face it was given (add_face),
\* the error it threw ("none" if it returned), the face a validation error
\* names, the boolean a query returned, the message is_watertight wrote, the
\* numbers surface_area or volume returned or the writer wrote (for
\* transform, the matrix it was called with), and what the mesh held before.
Call(op, arg, err, errface, ret) ==
    [op |-> op, arg |-> arg, err |-> err, errface |-> errface, ret |-> ret,
     msg |-> <<>>, val |-> <<>>, pre |-> Before]

Returned(op) == Call(op, NoFace, "none", <<>>, FALSE)

\* Model::create(): the member initialisers of model.hpp, lines 218-226.
Init ==
    /\ vertices = <<>>
    /\ texture_vertices = <<>>
    /\ vertex_normals = <<>>
    /\ faces = <<>>
    /\ is_connected_ = TRUE
    /\ is_convex_ = TRUE
    /\ is_triangulated_ = TRUE
    /\ is_validated_ = TRUE
    /\ is_watertight_ = TRUE
    /\ recalc_connectivity_ = TRUE
    /\ recalc_convexity_ = TRUE
    /\ recalc_water_tightness_ = TRUE
    /\ alive = {This, Other}
    /\ call = Returned("create")

\* Model::needs_recalc_properties without the assignment to
\* recalc_convexity_.
NeedsRecalcSkipsConvexity ==
    /\ recalc_connectivity_' = TRUE
    /\ recalc_convexity_' = recalc_convexity_
    /\ recalc_water_tightness_' = TRUE

\* Model::needs_recalc_properties.
NeedsRecalcProperties ==
    /\ recalc_connectivity_' = TRUE
    /\ recalc_convexity_' = TRUE
    /\ recalc_water_tightness_' = TRUE

\* Model::add_vertex.
AddVertex(p) ==
    /\ vertices' = Append(vertices, p)
    /\ NeedsRecalcProperties
    /\ call' = Returned("add_vertex")
    /\ UNCHANGED <<texture_vertices, vertex_normals, faces, cached,
                   is_triangulated_, is_validated_, alive>>

\* Model::add_texture_vertex.
AddTextureVertex(p) ==
    /\ Len(texture_vertices) < MaxAux
    /\ texture_vertices' = Append(texture_vertices, p)
    /\ call' = Returned("add_texture_vertex")
    /\ UNCHANGED <<vertices, vertex_normals, faces, cached, recalc,
                   is_triangulated_, is_validated_, alive>>

\* Model::add_vertex_normal.
AddVertexNormal(p) ==
    /\ Len(vertex_normals) < MaxAux
    /\ vertex_normals' = Append(vertex_normals, p)
    /\ call' = Returned("add_vertex_normal")
    /\ UNCHANGED <<vertices, texture_vertices, faces, cached, recalc,
                   is_triangulated_, is_validated_, alive>>

\* Model::add_face without the comparison of the face's mesh with this.
AddFaceErrorNoOwnerCheck(f) ==
    IF f.model \notin alive
        THEN "The associated Model object has been expired."
    ELSE "none"

\* Face::get_model_shptr as Model::add_face uses it: the error the call
\* throws for face f, or "none".
AddFaceError(f) ==
    IF f.model \notin alive
        THEN "The associated Model object has been expired."
    ELSE IF f.model # This
        THEN "Faces can only be added to their associated Model."
    ELSE "none"

\* Model::add_face.
AddFace(f) ==
    IF AddFaceError(f) # "none"
    THEN /\ call' = Call("add_face", f, AddFaceError(f), <<>>, FALSE)
         /\ UNCHANGED <<arrays, faces, cached, recalc, is_triangulated_,
                        is_validated_, alive>>
    ELSE /\ faces' \in SetInsert(faces, f)
         /\ is_triangulated_' =
                 IF Len(f.v) > 3 THEN FALSE ELSE is_triangulated_
         /\ is_validated_' = FALSE
         /\ NeedsRecalcProperties
         /\ call' = Call("add_face", f, "none", <<>>, FALSE)
         /\ UNCHANGED <<arrays, cached, alive>>

\* The first face of the container, in container order, that Face::validate
\* rejects; 0 if there is none.
FirstInvalid ==
    LET bad == {i \in 1..Len(faces) :
                  FaceValidate(faces[i], faces[i].model \in alive,
                               Len(vertices), Len(texture_vertices),
                               Len(vertex_normals)) # "ok"}
    IN  IF bad = {} THEN 0 ELSE CHOOSE i \in bad : \A j \in bad : i <= j

\* The ModelError Model::validate throws: the message of Face::validate for
\* the first invalid face; "none" if it returns.
ValidateError ==
    IF is_validated_ \/ FirstInvalid = 0 THEN "none"
    ELSE FaceValidate(faces[FirstInvalid], faces[FirstInvalid].model \in alive,
                      Len(vertices), Len(texture_vertices),
                      Len(vertex_normals))

\* The face whose vertex indices the error message of Model::validate
\* starts with.
ValidateErrorFace ==
    IF ValidateError = "none" THEN <<>> ELSE faces[FirstInvalid].v

\* Model::validate.
Validate ==
    /\ call' = Call("validate", NoFace, ValidateError, ValidateErrorFace, FALSE)
    /\ is_validated_' = IF ValidateError = "none" THEN TRUE ELSE is_validated_
    /\ UNCHANGED <<arrays, faces, cached, recalc, is_triangulated_, alive>>

(* -------------------------- convexify_faces --------------------------- *)

\* Lines 173-177: whether ring position ind of tmpf lies on the inner side
\* of the line of the edge that starts at ring position i.  The comparison
\* with a NaN normal is false.
IsInside(mv, v, nrm, i, ind) ==
    LET vsz  == Len(v)
        src  == RingPt(mv, v, i)
        edge == Slice3(Sub4(RingPt(mv, v, (i + 1) % vsz), src))
        to   == Sub3(Slice3(RingPt(mv, v, ind)), Slice3(src))
    IN  ~IsNaN(nrm) /\ Dot3(Cross(edge, to), nrm) >= 0

RECURSIVE SplitScan(_, _, _, _, _, _, _, _)
\* Lines 171-197: the loop over j, and the closing of the last outer run.
\* Returns the inner positions and the runs of outer positions.
SplitScan(mv, v, nrm, i, j, inner, outer, prev) ==
    LET vsz == Len(v)
        ind == (i + j) % vsz
        ins == IsInside(mv, v, nrm, i, ind)
        no  == Len(outer)
    IN  IF j >= vsz
        THEN [inner |-> inner,
              outer |-> IF prev THEN outer
                        ELSE [outer EXCEPT ![no] = Append(@, i)]]
        ELSE IF ins
        THEN SplitScan(mv, v, nrm, i, j + 1, Append(inner, ind),
                       IF prev THEN outer
                       ELSE [outer EXCEPT ![no] = Append(@, ind)],
                       TRUE)
        ELSE SplitScan(mv, v, nrm, i, j + 1, inner,
                       IF prev
                       THEN Append(outer, <<(vsz + ind - 1) % vsz, ind>>)
                       ELSE [outer EXCEPT ![no] = Append(@, ind)],
                       FALSE)

\* Lines 161-197 for the edge that starts at ring position i.
EdgeSplit(mv, v, nrm, i) ==
    SplitScan(mv, v, nrm, i, 2, <<i, (i + 1) % Len(v)>>, <<>>, TRUE)

RingEdge(v, i) == <<v[i + 1], v[((i + 1) % Len(v)) + 1]>>

RECURSIVE ScanEdgesAgain(_, _, _, _, _, _)
\* The loop over the edges of tmpf without lines 156-159: an edge that was
\* visited is scanned again.
ScanEdgesAgain(mv, v, nrm, i, visited, called) ==
    LET vsz == Len(v)
        e   == RingEdge(v, i)
        sp  == EdgeSplit(mv, v, nrm, i)
    IN  IF i = vsz
        THEN [split |-> FALSE, inner |-> <<>>, outer |-> <<>>,
              visited |-> visited, called |-> called]
        ELSE IF sp.outer # <<>>
        THEN [split |-> TRUE, inner |-> sp.inner, outer |-> sp.outer,
              visited |-> visited \cup {e}, called |-> called \/ vsz > 2]
        ELSE ScanEdgesAgain(mv, v, nrm, i + 1, visited \cup {e},
                       called \/ vsz > 2)

RECURSIVE ScanEdges(_, _, _, _, _, _)
\* Lines 153-205: the loop over the edges of tmpf from position i on.
\* Returns whether an edge split the face, the split, the visited edges and
\* whether Face::normal was called (it is called for every scanned edge of
\* a ring of more than two vertices).
ScanEdges(mv, v, nrm, i, visited, called) ==
    LET vsz == Len(v)
        e   == RingEdge(v, i)
        sp  == EdgeSplit(mv, v, nrm, i)
    IN  IF i = vsz
        THEN [split |-> FALSE, inner |-> <<>>, outer |-> <<>>,
              visited |-> visited, called |-> called]
        ELSE IF e \in visited
        THEN ScanEdges(mv, v, nrm, i + 1, visited, called)
        ELSE IF sp.outer # <<>>
        THEN [split |-> TRUE, inner |-> sp.inner, outer |-> sp.outer,
              visited |-> visited \cup {e}, called |-> called \/ vsz > 2]
        ELSE ScanEdges(mv, v, nrm, i + 1, visited \cup {e},
                       called \/ vsz > 2)

RECURSIVE Decompose(_, _, _, _)
\* Lines 143-219: the loop over the queue tmp_faces.  Returns the possible
\* sequences of the faces inserted into new_faces, in insertion order.
Decompose(mv, queue, visited, acc) ==
    IF queue = <<>> THEN {acc}
    ELSE LET tmpf == Head(queue)
             v    == tmpf.v
             Pop(nrm) ==
                LET sc   == ScanEdges(mv, v, nrm, 0, visited, FALSE)
                    done == IF sc.called THEN WithNormal(tmpf, nrm) ELSE tmpf
                IN  IF ~sc.split
                    THEN Decompose(mv, Tail(queue), sc.visited,
                                   Append(acc, done))
                    ELSE Decompose(mv,
                                   Tail(queue) \o <<SubFace(tmpf, sc.inner)>>
                                     \o [k \in 1..Len(sc.outer) |->
                                           SubFace(tmpf, sc.outer[k])],
                                   sc.visited, acc)
         IN  IF Len(v) = 3
             THEN Decompose(mv, Tail(queue),
                            visited \cup {<<v[1], v[2]>>, <<v[2], v[3]>>,
                                          <<v[3], v[1]>>},
                            Append(acc, tmpf))
             ELSE IF Len(v) < 3
             \* Face::normal is not called: the loop over j is empty
             THEN Pop(Zero3)
             ELSE UNION {Pop(nrm) : nrm \in Normal(mv, tmpf)}

RECURSIVE ConvexParts(_, _, _)
\* Lines 132-220: the possible sequences of the faces inserted into
\* new_faces for the faces of fs from index k on; the set of visited edges
\* is cleared for every face.
ConvexParts(mv, fs, k) ==
    IF k > Len(fs) THEN {<<>>}
    ELSE IF Len(fs[k].v) = 3 THEN ConvexParts(mv, fs, k + 1)
    ELSE {a \o b : a \in Decompose(mv, <<fs[k]>>, {}, <<>>),
                   b \in ConvexParts(mv, fs, k + 1)}

Triangles(fs) == SelectSeq(fs, LAMBDA f : Len(f.v) = 3)

\* Lines 125-221: the containers convexify_faces can leave: the triangles
\* stay, and new_faces, a std::set as well, is merged into them.
Convexified(mv, fs) ==
    UNION {SetMerge(Triangles(fs), nf) :
             nf \in UNION {SetInsertAll(<<>>, parts) :
                             parts \in ConvexParts(mv, fs, 1)}}

\* Model::convexify_faces.
ConvexifyFaces ==
    IF is_triangulated_
    THEN /\ call' = Returned("convexify_faces")
         /\ UNCHANGED <<arrays, faces, cached, recalc, is_triangulated_,
                        is_validated_, alive>>
    ELSE IF ValidateError # "none"
    THEN /\ call' = Call("convexify_faces", NoFace, ValidateError,
                         ValidateErrorFace, FALSE)
         /\ UNCHANGED <<arrays, faces, cached, recalc, is_triangulated_,
                        is_validated_, alive>>
    ELSE /\ faces' \in Convexified(vertices, faces)
         /\ is_validated_' = TRUE
         /\ call' = Returned("convexify_faces")
         /\ UNCHANGED <<arrays, cached, recalc, is_triangulated_, alive>>

(* ----------------------------- triangulate ---------------------------- *)

\* operator% on a Vec<long, 3> (linalg.hpp): the remainder of C++, which
\* has the sign of the dividend.
CRem(a, n) == IF a >= 0 THEN a % n ELSE -((-a) % n)

\* Line 266 with the increment of the first triple for both.
trind_step_same == << <<-1, 1, 1>>, <<-1, 1, 1>> >>

\* Line 266: the increments of the two index triples.
trind_step == << <<-1, 1, 1>>, <<-1, -1, 1>> >>

RECURSIVE TriSteps(_, _, _, _)
\* Lines 269-282: the ring positions of the triangles emitted for a ring of
\* fvcnt vertices; trind holds the two index triples and i (1 or 2) names
\* the one whose turn it is.
TriSteps(fvcnt, trind, i, acc) ==
    LET t    == trind[i]
        ivec == <<CRem(fvcnt + t[1], fvcnt), CRem(fvcnt + t[2], fvcnt),
                  CRem(fvcnt + t[3], fvcnt)>>
        st   == trind_step[i]
    IN  IF ivec[1] = ivec[3] THEN acc
        ELSE TriSteps(fvcnt,
                      [trind EXCEPT ![i] = <<t[1] + st[1], t[2] + st[2],
                                             t[3] + st[3]>>],
                      3 - i, Append(acc, ivec))

\* Lines 265-282 for one face.
TriPositions(fvcnt) ==
    TriSteps(fvcnt, << <<0, 1, 2>>, <<-1, 0, 2>> >>, 1, <<>>)

RECURSIVE EmittedTriangles(_, _)
\* Lines 255-288: the triangles emplaced into new_faces for the faces of fs
\* from index k on, in the order of their insertion.
EmittedTriangles(fs, k) ==
    IF k > Len(fs) THEN <<>>
    ELSE IF Len(fs[k].v) > 3
    THEN LET tp == TriPositions(Len(fs[k].v))
         IN  [j \in 1..Len(tp) |-> SubFace(fs[k], tp[j])]
               \o EmittedTriangles(fs, k + 1)
    ELSE EmittedTriangles(fs, k + 1)

AtMostTriangles(fs) == SelectSeq(fs, LAMBDA f : Len(f.v) <= 3)

\* Lines 253-289: the containers the loop over the convex faces cf and the
\* merge of new_faces can leave.
Triangulated(cf) ==
    UNION {SetMerge(AtMostTriangles(cf), nf) :
             nf \in SetInsertAll(<<>>, EmittedTriangles(cf, 1))}

\* Model::triangulate.
Triangulate ==
    IF is_triangulated_
    THEN /\ call' = Returned("triangulate")
         /\ UNCHANGED <<arrays, faces, cached, recalc, is_triangulated_,
                        is_validated_, alive>>
    ELSE IF ValidateError # "none"
    THEN /\ call' = Call("triangulate", NoFace, ValidateError,
                         ValidateErrorFace, FALSE)
         /\ UNCHANGED <<arrays, faces, cached, recalc, is_triangulated_,
                        is_validated_, alive>>
    ELSE /\ \E cf \in Convexified(vertices, faces) :
                faces' \in Triangulated(cf)
         /\ is_validated_' = TRUE
         /\ is_triangulated_' = TRUE
         /\ call' = Returned("triangulate")
         /\ UNCHANGED <<arrays, cached, recalc, alive>>

(* ------------------------------ transform ----------------------------- *)

\* operator* of a 4x4 matrix, given by its rows, and a 4D vector.
MatVec4(m, a) ==
    [r \in 1..4 |-> m[r][1] * a[1] + m[r][2] * a[2] + m[r][3] * a[3]
                      + m[r][4] * a[4]]

\* Model::transform with a call of needs_recalc_properties at its end.
TransformInvalidates(tmat) ==
    /\ \A i \in 1..Len(vertices) : \A c \in 1..4 :
          Abs(MatVec4(tmat, vertices[i])[c]) <= MaxCoord
    /\ \A i \in 1..Len(vertex_normals) : \A c \in 1..3 :
          Abs(MatVec4(tmat, <<vertex_normals[i][1], vertex_normals[i][2],
                              vertex_normals[i][3], 0>>)[c]) <= MaxCoord
    /\ vertices' = [i \in 1..Len(vertices) |-> MatVec4(tmat, vertices[i])]
    /\ vertex_normals' =
          [i \in 1..Len(vertex_normals) |->
             Slice3(MatVec4(tmat, <<vertex_normals[i][1], vertex_normals[i][2],
                                    vertex_normals[i][3], 0>>))]
    /\ NeedsRecalcProperties
    /\ call' = [Returned("transform") EXCEPT !.val = tmat]
    /\ UNCHANGED <<texture_vertices, faces, cached, is_triangulated_,
                   is_validated_, alive>>

\* Model::transform with the vertex normals extended by 1, as points are,
\* instead of 0.
TransformNormalsAsPoints(tmat) ==
    /\ \A i \in 1..Len(vertices) : \A c \in 1..4 :
          Abs(MatVec4(tmat, vertices[i])[c]) <= MaxCoord
    /\ \A i \in 1..Len(vertex_normals) : \A c \in 1..3 :
          Abs(MatVec4(tmat, <<vertex_normals[i][1], vertex_normals[i][2],
                              vertex_normals[i][3], 1>>)[c]) <= MaxCoord
    /\ vertices' = [i \in 1..Len(vertices) |-> MatVec4(tmat, vertices[i])]
    /\ vertex_normals' =
          [i \in 1..Len(vertex_normals) |->
             Slice3(MatVec4(tmat, <<vertex_normals[i][1], vertex_normals[i][2],
                                    vertex_normals[i][3], 1>>))]
    /\ call' = [Returned("transform") EXCEPT !.val = tmat]
    /\ UNCHANGED <<texture_vertices, faces, cached, recalc, is_triangulated_,
                   is_validated_, alive>>

\* Model::transform.
Transform(tmat) ==
    /\ \A i \in 1..Len(vertices) : \A c \in 1..4 :
          Abs(MatVec4(tmat, vertices[i])[c]) <= MaxCoord
    /\ \A i \in 1..Len(vertex_normals) : \A c \in 1..3 :
          Abs(MatVec4(tmat, <<vertex_normals[i][1], vertex_normals[i][2],
                              vertex_normals[i][3], 0>>)[c]) <= MaxCoord
    /\ vertices' = [i \in 1..Len(vertices) |-> MatVec4(tmat, vertices[i])]
    /\ vertex_normals' =
          [i \in 1..Len(vertex_normals) |->
             Slice3(MatVec4(tmat, <<vertex_normals[i][1], vertex_normals[i][2],
                                    vertex_normals[i][3], 0>>))]
    /\ call' = [Returned("transform") EXCEPT !.val = tmat]
    /\ UNCHANGED <<texture_vertices, faces, cached, recalc, is_triangulated_,
                   is_validated_, alive>>

(* ------------------------------- Bitset ------------------------------- *)

\* std::numeric_limits<uintmax_t>::digits: the bits of a storage word.
WordS == 64

\* The bits of an int, the type of the literal 1 that bitset.cpp shifts.
IntBits == 32

\* What a build makes of the two undefined operations of bitset.cpp.
\* shift: a shift of an int by IntBits or more takes the count modulo
\* IntBits ("mod"), or shifts every bit out ("zero").  ovf: INT_MIN - 1
\* wraps around to INT_MAX ("wrap"), or is computed in the width of the
\* word it is converted to ("wide").
Builds == [shift : {"mod", "zero"}, ovf : {"wrap", "wide"}]

RECURSIVE IntShiftOne(_, _)
\* (WordT)(1 << k) for 0 <= k < WordS, as the set of the bits of the word
\* that are 1.  1 << (IntBits - 1) is INT_MIN, whose conversion to the
\* unsigned word extends the sign.
IntShiftOne(bld, k) ==
    IF k < IntBits - 1 THEN {k}
    ELSE IF k = IntBits - 1 THEN (IntBits - 1)..(WordS - 1)
    ELSE IF bld.shift = "mod" THEN IntShiftOne(bld, k % IntBits)
    ELSE {}

\* (WordT)((1 << r) - 1) for 0 <= r < WordS, as the set of the bits that
\* are 1.
IntShiftOneMinusOne(bld, r) ==
    LET one == IntShiftOne(bld, r)
    IN  IF one = {} THEN 0..(WordS - 1)
        ELSE IF one = (IntBits - 1)..(WordS - 1)
        THEN IF bld.ovf = "wrap" THEN 0..(IntBits - 2)
             ELSE (0..(IntBits - 2)) \cup (IntBits..(WordS - 1))
        ELSE 0..((CHOOSE k \in one : TRUE) - 1)

\* Bitset::Bitset(n).  words_ is the set of the positions of the bits that
\* are 1, bit b of word w being position w * WordS + b.
BitsetNew(bld, n) ==
    [bitcnt_     |-> n,
     wordcnt_    |-> IF n % WordS = 0 THEN n \div WordS ELSE n \div WordS + 1,
     lastw_mask_ |-> IntShiftOneMinusOne(bld, n % WordS),
     words_      |-> {}]

\* words_[i] as the set of the bits that are 1.
BitsetWord(bs, i) ==
    {x - i * WordS : x \in {y \in bs.words_ : y \div WordS = i}}

\* BIT_MASK of operator[] and flip, as positions of words_.
BitMask(bld, ind) ==
    {(ind \div WordS) * WordS + x : x \in IntShiftOne(bld, ind % WordS)}

\* Bitset::all: the values it can return.  With no words it reads past the
\* end of an empty array, and either value can result.
BitsetAll(bs) ==
    IF bs.wordcnt_ = 0 THEN BOOLEAN
    ELSE {/\ \A i \in 0..(bs.wordcnt_ - 2) :
               BitsetWord(bs, i) = 0..(WordS - 1)
          /\ BitsetWord(bs, bs.wordcnt_ - 1) = bs.lastw_mask_}

\* Bitset::any.
BitsetAny(bs) == bs.words_ # {}

\* Bitset::none.
BitsetNone(bs) == bs.words_ = {}

\* Bitset::check_index with the bit count itself taken for an index.
CheckIndexThrowsPastEnd(bs, ind) == ind > bs.bitcnt_

\* Bitset::check_index: whether it throws std::out_of_range.
CheckIndexThrows(bs, ind) == ind >= bs.bitcnt_

\* Bitset::operator[] for an index that check_index accepts.
BitsetGet(bld, bs, ind) == bs.words_ \cap BitMask(bld, ind) # {}

\* Bitset::flip for an index that check_index accepts.
BitsetFlip(bld, bs, ind) ==
    [bs EXCEPT !.words_ = (bs.words_ \ BitMask(bld, ind))
                            \cup (BitMask(bld, ind) \ bs.words_)]

\* Bitset::set for an index that check_index accepts.
BitsetSet(bld, bs, ind, val) ==
    IF BitsetGet(bld, bs, ind) # val THEN BitsetFlip(bld, bs, ind) ELSE bs

\* Bitset::reset.
BitsetReset(bs) == [bs EXCEPT !.words_ = {}]

\* Bitset::compare_sizes: whether it throws std::logic_error.
CompareSizesThrows(bs, other) == bs.bitcnt_ # other.bitcnt_

\* The words of operator|, operator& and operator^ and of their assigning
\* forms, for operands that compare_sizes accepts.
BitsetCombine(op, bs, other) ==
    CASE op = "|" -> bs.words_ \cup other.words_
      [] op = "&" -> bs.words_ \cap other.words_
      [] op = "^" -> (bs.words_ \ other.words_) \cup (other.words_ \ bs.words_)

(* ---------------------------- connectivity ---------------------------- *)

RECURSIVE SetBits(_, _, _, _)
\* Lines 445-448: bs after reset and set(v) for the vertices of a ring
\* from position k on.
SetBits(bld, bs, v, k) ==
    IF k > Len(v) THEN bs
    ELSE SetBits(bld, BitsetSet(bld, bs, v[k], TRUE), v, k + 1)

RECURSIVE MergePass(_, _, _)
\* Lines 462-469: one pass over the list of face bitsets; a bitset that
\* shares a bit with the union joins it and leaves the list.
MergePass(conns, k, st) ==
    IF k > Len(conns) THEN st
    ELSE IF conns[k].words_ \cap st.union.words_ # {}
    THEN MergePass(conns, k + 1,
                   [union |-> [st.union EXCEPT !.words_ =
                                  BitsetCombine("|", st.union, conns[k])],
                    rest  |-> st.rest])
    ELSE MergePass(conns, k + 1,
                   [union |-> st.union, rest |-> Append(st.rest, conns[k])])

RECURSIVE MergeLoop(_, _, _)
\* Lines 460-470: at most nconn passes.
MergeLoop(conns, union, nconn) ==
    IF conns = <<>> \/ nconn = 0 THEN [union |-> union, rest |-> conns]
    ELSE LET st == MergePass(conns, 1, [union |-> union, rest |-> <<>>])
         IN  MergeLoop(st.rest, st.union, nconn - 1)

\* Model::check_connectivity as one build computes it: the values it can
\* return.  The vertex indices of the faces are below nverts.
CheckConnectivityOn(bld, fs, nverts) ==
    IF fs = <<>> THEN {nverts = 0}
    ELSE LET n     == Len(fs)
             bs    == BitsetNew(bld, nverts)
             \* emplace_front: the list holds the faces in reverse order
             conns == [k \in 1..n |-> SetBits(bld, bs, fs[n + 1 - k].v, 1)]
             res   == MergeLoop(Tail(conns), conns[1], n - 1)
         IN  IF res.rest # <<>> THEN {FALSE}
             ELSE BitsetAll(res.union)

\* Model::check_connectivity: the values it can return.
CheckConnectivity(fs, nverts) ==
    UNION {CheckConnectivityOn(bld, fs, nverts) : bld \in Builds}

\* Model::is_connected.
IsConnected ==
    IF ValidateError # "none"
    THEN /\ call' = Call("is_connected", NoFace, ValidateError,
                         ValidateErrorFace, FALSE)
         /\ UNCHANGED <<arrays, faces, cached, recalc, is_triangulated_,
                        is_validated_, alive>>
    ELSE /\ is_validated_' = TRUE
         /\ is_connected_' \in
               IF recalc_connectivity_
               THEN CheckConnectivity(faces, Len(vertices))
               ELSE {is_connected_}
         /\ recalc_connectivity_' = FALSE
         /\ call' = Call("is_connected", NoFace, "none", <<>>, is_connected_')
         /\ UNCHANGED <<arrays, faces, is_convex_, is_watertight_,
                        recalc_convexity_, recalc_water_tightness_,
                        is_triangulated_, alive>>

(* ------------------------------ is_convex ----------------------------- *)

RECURSIVE CachedNormals(_, _, _)
\* The faces of fs from index k on after Face::normal was called on each:
\* the possible sequences.
CachedNormals(mv, fs, k) ==
    IF k > Len(fs) THEN {<<>>}
    ELSE {<<WithNormal(fs[k], nrm)>> \o rest :
            nrm \in Normal(mv, fs[k]), rest \in CachedNormals(mv, fs, k + 1)}

\* Lines 602-611: the pairs of a face (its place in the container) and a
\* vertex that lies on the outer side of the face's plane.  The coordinates
\* are integers, so that a positive product lies above EPSILON and a product
\* of 0 does not; a comparison with NaN is false.
Witnesses(mv, fs) ==
    {w \in (1..Len(fs)) \X (0..(Len(mv) - 1)) :
        /\ ~IsNaN(fs[w[1]].n)
        /\ Dot3(Slice3(Sub4(mv[w[2] + 1], RingPt(mv, fs[w[1]].v, 0))),
                fs[w[1]].n) > 0}

\* Model::get_concave_vertices on a validated mesh: the possible outcomes.
\* Face::normal throws for the first face of fewer than three vertices; the
\* faces before it have cached their normals by then.
GetConcaveVertices(mv, fs) ==
    IF mv = <<>> THEN {[faces |-> fs, err |-> "none", conc |-> {}]}
    ELSE LET short == {k \in 1..Len(fs) : Len(fs[k].v) < 3}
             upto  == IF short = {} THEN Len(fs)
                      ELSE (CHOOSE k \in short : \A j \in short : k <= j) - 1
         IN  {[faces |-> done \o SubSeq(fs, upto + 1, Len(fs)),
               err   |-> IF short = {} THEN "none"
                         ELSE "Face must contain at least 3 vertices.",
               conc  |-> Witnesses(mv, done)] :
                done \in CachedNormals(mv, SubSeq(fs, 1, upto), 1)}

\* Model::is_convex.
IsConvex ==
    IF ValidateError # "none"
    THEN /\ call' = Call("is_convex", NoFace, ValidateError,
                         ValidateErrorFace, FALSE)
         /\ UNCHANGED <<arrays, faces, cached, recalc, is_triangulated_,
                        is_validated_, alive>>
    ELSE IF ~recalc_convexity_
    THEN /\ is_validated_' = TRUE
         /\ call' = Call("is_convex", NoFace, "none", <<>>, is_convex_)
         /\ UNCHANGED <<arrays, faces, cached, recalc, is_triangulated_,
                        alive>>
    ELSE \E g \in GetConcaveVertices(vertices, faces) :
            /\ is_validated_' = TRUE
            /\ faces' = g.faces
            /\ IF g.err # "none"
               THEN /\ call' = Call("is_convex", NoFace, g.err, <<>>, FALSE)
                    /\ UNCHANGED <<cached, recalc>>
               ELSE /\ is_convex_' = (g.conc = {})
                    /\ recalc_convexity_' = FALSE
                    /\ call' = Call("is_convex", NoFace, "none", <<>>,
                                    is_convex_')
                    /\ UNCHANGED <<is_connected_, is_watertight_,
                                   recalc_connectivity_,
                                   recalc_water_tightness_>>
            /\ UNCHANGED <<arrays, is_triangulated_, alive>>

(* ---------------------------- is_watertight --------------------------- *)

\* Lines 494-497: the edge that starts at ring position i, smaller index
\* first.
SortedEdge(v, i) ==
    LET e == RingEdge(v, i)
    IN  IF e[1] > e[2] THEN <<e[2], e[1]>> ELSE e

\* Lines 490-500: edge_occurrences, as the set of its keys and the count of
\* each.
EdgeKeys(fs) ==
    UNION {{SortedEdge(fs[k].v, i) : i \in 0..(Len(fs[k].v) - 1)} :
             k \in 1..Len(fs)}

EdgeOccurrences(fs, e) ==
    Cardinality(UNION {{<<k, i>> : i \in {j \in 0..(Len(fs[k].v) - 1) :
                                            SortedEdge(fs[k].v, j) = e}} :
                         k \in 1..Len(fs)})

\* The length of the longest of the sequences ss; 0 if there is none.
MaxLen(ss) ==
    IF ss = <<>> THEN 0
    ELSE CHOOSE n \in {Len(ss[k]) : k \in 1..Len(ss)} :
            \A k \in 1..Len(ss) : Len(ss[k]) <= n

\* The order of the keys of a std::map of index pairs.
PairLess(a, b) == a[1] < b[1] \/ (a[1] = b[1] /\ a[2] < b[2])

\* The message for the last such edge in key order: what lines 501-508 would
\* produce if the map were walked from its end.
EdgeMessageLast(fs) ==
    LET bad == {e \in EdgeKeys(fs) : EdgeOccurrences(fs, e) # 2}
    IN  IF bad = {} THEN <<>>
        ELSE LET e == CHOOSE x \in bad : \A y \in bad \ {x} : PairLess(y, x)
             IN  <<"Edge", e[1], e[2],
                   IF EdgeOccurrences(fs, e) = 1 THEN "Boundary edge"
                   ELSE "Non-manifold edge">>

\* Lines 501-508: the message for the first edge, in key order, that does
\* not occur twice; <<>> if there is none.
EdgeMessage(fs) ==
    LET bad == {e \in EdgeKeys(fs) : EdgeOccurrences(fs, e) # 2}
    IN  IF bad = {} THEN <<>>
        ELSE LET e == CHOOSE x \in bad : \A y \in bad \ {x} : PairLess(x, y)
             IN  <<"Edge", e[1], e[2],
                   IF EdgeOccurrences(fs, e) = 1 THEN "Boundary edge"
                   ELSE "Non-manifold edge">>

\* Lines 512-535 for vertex i: the faces emplaced into face_group, in the
\* order of the emplacements, and the number of renumbered vertices.  An
\* index gets the number of the indices that are met before it: index_map
\* numbers them where they are first met, face by face and along each ring.
FaceGroup(fs, i) ==
    LET incident == SelectSeq(fs, LAMBDA f : i \in Range(f.v))
        selected == [k \in 1..Len(incident) |->
                        SelectSeq(incident[k].v, LAMBDA vi : vi # i)]
        met      == UNION {Range(selected[k]) : k \in 1..Len(selected)}
        places   == {p \in (1..Len(selected)) \X (1..MaxLen(selected)) :
                       p[2] <= Len(selected[p[1]])}
        first    == [x \in met |->
                       LET at == {p \in places : selected[p[1]][p[2]] = x}
                       IN  CHOOSE p \in at : \A q \in at : ~PairLess(q, p)]
        index    == [x \in met |->
                       Cardinality({y \in met : PairLess(first[y], first[x])})]
    IN  [group  |-> [k \in 1..Len(selected) |->
                       NewFace(This,
                               [j \in 1..Len(selected[k]) |->
                                  index[selected[k][j]]],
                               <<>>, <<>>)],
         nverts |-> Cardinality(met)]

\* Lines 511-541 for vertex i: whether check_connectivity can return false,
\* and whether it can return true, for the face group of the vertex;
\* face_group is a std::set of faces as well.
VertexResults(bld, fs, i) ==
    LET fg == FaceGroup(fs, i)
    IN  UNION {CheckConnectivityOn(bld, g, fg.nverts) :
                 g \in SetInsertAll(<<>>, fg.group)}

RECURSIVE ConcMaps(_, _, _, _)
\* conc_verts as Model::get_concave_vertices builds it for the faces from
\* container position k on: a std::map from faces to the vertices that lie
\* on their outer side, as the sequence of its entries in key order.  Its
\* keys are ordered by Face::operator<, like the faces of the container: a
\* face becomes a new key, or where the lookup takes it for an equivalent
\* key, its vertices join the list of that key.
ConcMaps(fs, conc, k, acc) ==
    IF k > Len(fs) THEN {acc}
    ELSE LET w    == SortedSeq({c[2] : c \in {d \in conc : d[1] = k}})
             keys == [j \in 1..Len(acc) |-> acc[j].f]
             ips  == InsertPositions(keys, fs[k])
         IN  IF w = <<>> THEN ConcMaps(fs, conc, k + 1, acc)
             ELSE UNION (
                {ConcMaps(fs, conc, k + 1,
                          InsertAt(acc, [f |-> fs[k], list |-> w], pos)) :
                    pos \in ips \ {Reject}}
                \cup
                {ConcMaps(fs, conc, k + 1,
                          [acc EXCEPT ![j].list = @ \o w]) :
                    j \in {j \in 1..Len(acc) :
                             Reject \in ips /\ FaceEquiv(acc[j].f, fs[k])}})

\* Lines 556-577 for face f and edge e, one end of which lies on the outer
\* side of f: the sign of the product that decides whether the point where
\* the edge meets the plane of f lies on the inner side of the ring edge that
\* starts at position i.  The point is e0 + evec * (N / D); the product is
\* taken times D * D, which is positive.
InnerSide(mv, f, e, i) ==
    LET n     == f.n
        fvn   == Len(f.v)
        fv(j) == Slice3(RingPt(mv, f.v, j))
        e0    == Slice3(mv[e[1] + 1])
        e1    == Slice3(mv[e[2] + 1])
        evec  == Sub3(e1, e0)
        N     == Dot3(Sub3(fv(0), e0), n)
        D     == Dot3(evec, n)
        rel   == Sub3(e0, fv(i))
        toPt  == <<D * rel[1] + N * evec[1], D * rel[2] + N * evec[2],
                   D * rel[3] + N * evec[3]>>
    IN  Dot3(Cross(Sub3(fv((i + 1) % fvn), fv(i)), toPt), n) * D

\* Lines 555-587 for one entry of conc_verts: whether the code finds a self
\* intersection whatever the rounding ("must"), and whether it can find one
\* ("may"): a product that is exactly 0 can be computed on either side of 0.
Crossing(en, e) == (e[1] \in Range(en.list)) # (e[2] \in Range(en.list))

MustIntersect(mv, fs, en) ==
    \E e \in EdgeKeys(fs) :
        /\ Crossing(en, e)
        /\ \A i \in 0..(Len(en.f.v) - 1) : InnerSide(mv, en.f, e, i) > 0

MayIntersect(mv, fs, en) ==
    \E e \in EdgeKeys(fs) :
        /\ Crossing(en, e)
        /\ \A i \in 0..(Len(en.f.v) - 1) : InnerSide(mv, en.f, e, i) >= 0

RECURSIVE SelfIntersections(_, _, _, _)
\* Lines 545-588: the messages the loop over conc_verts can end with from
\* entry j on; <<>> if it finds no self intersection.
SelfIntersections(mv, fs, cm, j) ==
    IF j > Len(cm) THEN {<<>>}
    ELSE LET hit == {<<"Face", cm[j].f.v, "Self intersection">>}
         IN  IF MustIntersect(mv, fs, cm[j]) THEN hit
             ELSE IF MayIntersect(mv, fs, cm[j])
             THEN hit \cup SelfIntersections(mv, fs, cm, j + 1)
             ELSE SelfIntersections(mv, fs, cm, j + 1)

\* Model::check_water_tightness on a validated mesh as one build computes
\* it: the possible outcomes: the message (<<>> when it returns true), the
\* error thrown ("none" if it returns) and the faces, whose normals
\* get_concave_vertices caches.
CheckWaterTightnessOn(bld, mv, fs) ==
    LET nv      == Len(mv)
        vres    == [i \in 0..(nv - 1) |-> VertexResults(bld, fs, i)]
        vbad    == {i \in 0..(nv - 1) : FALSE \in vres[i]}
        vmust   == {i \in 0..(nv - 1) : vres[i] = {FALSE}}
        \* the vertices the loop of lines 511-541 can stop at
        vstop   == {i \in vbad : \A j \in vmust : i <= j}
        Out(m, e, g) == [msg |-> m, err |-> e, faces |-> g]
    IN  IF EdgeMessage(fs) # <<>> THEN {Out(EdgeMessage(fs), "none", fs)}
        ELSE {Out(<<"Vertex", i, "Non-manifold vertex">>, "none", fs) :
                i \in vstop}
             \cup
             (IF vmust # {} THEN {}
              ELSE UNION {
                 IF g.err # "none" THEN {Out(<<>>, g.err, g.faces)}
                 ELSE UNION {{Out(m, "none", g.faces) :
                                m \in SelfIntersections(mv, fs, cm, 1)} :
                               cm \in ConcMaps(g.faces, g.conc, 1, <<>>)} :
                 g \in GetConcaveVertices(mv, fs)})

\* Model::check_water_tightness: the outcomes of all builds.
CheckWaterTightness(mv, fs) ==
    UNION {CheckWaterTightnessOn(bld, mv, fs) : bld \in Builds}

\* Model::is_watertight(msg), called with an empty string; Model::is_watertight()
\* calls it so.  Only check_water_tightness writes msg (line 394): a call
\* that returns the cached value leaves it as the caller passed it.
IsWatertight ==
    IF ValidateError # "none"
    THEN /\ call' = Call("is_watertight", NoFace, ValidateError,
                         ValidateErrorFace, FALSE)
         /\ UNCHANGED <<arrays, faces, cached, recalc, is_triangulated_,
                        is_validated_, alive>>
    ELSE IF ~recalc_water_tightness_
    THEN /\ is_validated_' = TRUE
         /\ call' = Call("is_watertight", NoFace, "none", <<>>, is_watertight_)
         /\ UNCHANGED <<arrays, faces, cached, recalc, is_triangulated_,
                        alive>>
    ELSE \E r \in CheckWaterTightness(vertices, faces) :
            /\ is_validated_' = TRUE
            /\ faces' = r.faces
            /\ IF r.err # "none"
               THEN /\ call' = Call("is_watertight", NoFace, r.err, <<>>,
                                    FALSE)
                    /\ UNCHANGED <<cached, recalc>>
               ELSE /\ is_watertight_' = (r.msg = <<>>)
                    /\ recalc_water_tightness_' = FALSE
                    /\ call' = [Call("is_watertight", NoFace, "none", <<>>,
                                     is_watertight_') EXCEPT !.msg = r.msg]
                    /\ UNCHANGED <<is_connected_, is_convex_,
                                   recalc_connectivity_, recalc_convexity_>>
            /\ UNCHANGED <<arrays, is_triangulated_, alive>>

(* ------------------- surface_area, volume, the writer ------------------ *)

\* The mesh Model::create(other) makes.
Copy == 3

\* Model::create(other) with the faces left pointing at the original.
CreateFromShared(fs) == fs

\* Model::create(other), lines 39-47: the faces of the copy; their owner is
\* the copy.  The arrays and the flags are copied as they are.
CreateFrom(fs) == [k \in 1..Len(fs) |-> [fs[k] EXCEPT !.model = Copy]]

\* The copy of lines 305-306 left as Model::create made it.
UntriangulatedCopy(mv, fs) == {CreateFrom(fs)}

\* Model::triangulate called on a validated copy that is not triangulated:
\* the containers it can leave in the copy.
TriangulatedCopy(mv, fs) ==
    UNION {Triangulated(cf) : cf \in Convexified(mv, CreateFrom(fs))}

\* The error of Face::compute_normal for a face of fewer than 3 vertices.
TooShort == "Face must contain at least 3 vertices."

\* The error of the checked element access of the vertex array.
OutOfRange == "std::out_of_range"

RECURSIVE AreaTerms(_, _, _)
\* Lines 312-315 for the faces of fs from index k on: for each face the
\* square of the norm of its normal that is not normalised (four times the
\* square of the area of a triangle); the sequences the loop can add up.
AreaTerms(mv, fs, k) ==
    IF k > Len(fs) THEN {<<>>}
    ELSE {<<Dot3(n, n)>> \o rest :
            n \in ComputeNormalRaw(mv, fs[k].v),
            rest \in AreaTerms(mv, fs, k + 1)}

\* Model::surface_area after the validation: the outcomes for the faces fs
\* of the mesh it adds up.
SurfaceAreaOutcomes(mv, fs) ==
    IF \E k \in 1..Len(fs) : Len(fs[k].v) < 3
    THEN {[err |-> TooShort, val |-> <<>>]}
    ELSE {[err |-> "none", val |-> t] : t \in AreaTerms(mv, fs, 1)}

\* Model::surface_area without the copy: the mesh itself is triangulated.
SurfaceAreaInPlace ==
    IF ValidateError # "none"
    THEN /\ call' = Call("surface_area", NoFace, ValidateError,
                         ValidateErrorFace, FALSE)
         /\ UNCHANGED <<arrays, faces, cached, recalc, is_triangulated_,
                        is_validated_, alive>>
    ELSE \E model \in (IF is_triangulated_ THEN {faces}
                       ELSE UNION {Triangulated(cf) :
                                     cf \in Convexified(vertices, faces)}) :
         \E r \in SurfaceAreaOutcomes(vertices, model) :
            /\ is_validated_' = TRUE
            /\ faces' = model
            /\ is_triangulated_' = TRUE
            /\ call' = [Call("surface_area", NoFace, r.err, <<>>, FALSE)
                           EXCEPT !.val = r.val]
            /\ UNCHANGED <<arrays, cached, recalc, alive>>

\* Model::surface_area.
SurfaceArea ==
    IF ValidateError # "none"
    THEN /\ call' = Call("surface_area", NoFace, ValidateError,
                         ValidateErrorFace, FALSE)
         /\ UNCHANGED <<arrays, faces, cached, recalc, is_triangulated_,
                        is_validated_, alive>>
    ELSE \E model \in (IF is_triangulated_ THEN {faces}
                       ELSE TriangulatedCopy(vertices, faces)) :
         \E r \in SurfaceAreaOutcomes(vertices, model) :
            /\ is_validated_' = TRUE
            /\ call' = [Call("surface_area", NoFace, r.err, <<>>, FALSE)
                           EXCEPT !.val = r.val]
            /\ UNCHANGED <<arrays, faces, cached, recalc, is_triangulated_,
                           alive>>

\* Lines 337-338: the vertex index fv[k - 1] of a face; the vector is not
\* checked, so beyond its end any value is read, here an index of a vertex
\* or the number of vertices, which stands for the values beyond them.
Corner(mv, f, k) == IF k <= Len(f.v) THEN {f.v[k]} ELSE 0..Len(mv)

RECURSIVE VolumeSums(_, _, _, _)
\* Lines 336-343 for the faces of fs from index k on, the sum so far being
\* acc: six times the sums the loop can reach, and the error the checked
\* access of the vertex array throws.
VolumeSums(mv, fs, k, acc) ==
    IF k > Len(fs) THEN {[err |-> "none", val |-> <<acc>>]}
    ELSE UNION {
       IF \E i \in {a, b, c} : i >= Len(mv)
       THEN {[err |-> OutOfRange, val |-> <<>>]}
       ELSE VolumeSums(mv, fs, k + 1,
                       acc + Dot3(mv[a + 1], Cross(mv[b + 1], mv[c + 1]))) :
       a \in Corner(mv, fs[k], 1), b \in Corner(mv, fs[k], 2),
       c \in Corner(mv, fs[k], 3)}

\* Model::volume without the validation of lines 323-325.
VolumeUnchecked ==
    \E model \in (IF is_triangulated_ THEN {faces}
                  ELSE TriangulatedCopy(vertices, faces)) :
    \E r \in VolumeSums(vertices, model, 1, 0) :
       /\ call' = [Call("volume", NoFace, r.err, <<>>, FALSE)
                      EXCEPT !.val = r.val]
       /\ UNCHANGED <<arrays, faces, cached, recalc, is_triangulated_,
                      is_validated_, alive>>

\* Model::volume.
Volume ==
    IF ValidateError # "none"
    THEN /\ call' = Call("volume", NoFace, ValidateError,
                         ValidateErrorFace, FALSE)
         /\ UNCHANGED <<arrays, faces, cached, recalc, is_triangulated_,
                        is_validated_, alive>>
    ELSE \E model \in (IF is_triangulated_ THEN {faces}
                       ELSE TriangulatedCopy(vertices, faces)) :
         \E r \in VolumeSums(vertices, model, 1, 0) :
            /\ is_validated_' = TRUE
            /\ call' = [Call("volume", NoFace, r.err, <<>>, FALSE)
                           EXCEPT !.val = r.val]
            /\ UNCHANGED <<arrays, faces, cached, recalc, is_triangulated_,
                           alive>>

RECURSIVE Written(_, _, _, _)
\* STLBinWriter::operator(), lines 36-54, for the faces of fs from index k
\* on: the normal and the vertices written for each face, and the error
\* that ends the loop.
Written(mv, fs, k, acc) ==
    IF k > Len(fs) THEN {[err |-> "none", val |-> acc]}
    ELSE IF ~fs[k].nset /\ Len(fs[k].v) < 3
    THEN {[err |-> TooShort, val |-> acc]}
    ELSE IF \E i \in Range(fs[k].v) : i >= Len(mv)
    THEN {[err |-> OutOfRange, val |-> acc]}
    ELSE UNION {Written(mv, fs, k + 1,
                        Append(acc, <<n>> \o [j \in 1..Len(fs[k].v) |->
                                                Slice3(mv[fs[k].v[j] + 1])])) :
                  n \in Normal(mv, fs[k])}

\* STLBinWriter::operator() on the mesh, the file being open: it works on a
\* copy, whose validation fails as that of the mesh does; an error is thrown
\* on as a WriteError with the same message.
StlWrite ==
    IF ~is_triangulated_ /\ ValidateError # "none"
    THEN /\ call' = Call("stl_bin", NoFace, ValidateError,
                         ValidateErrorFace, FALSE)
         /\ UNCHANGED <<arrays, faces, cached, recalc, is_triangulated_,
                        is_validated_, alive>>
    ELSE \E model \in (IF is_triangulated_ THEN {CreateFrom(faces)}
                       ELSE TriangulatedCopy(vertices, faces)) :
         \E r \in Written(vertices, model, 1, <<>>) :
            /\ call' = [Call("stl_bin", NoFace, r.err, <<>>, FALSE)
                           EXCEPT !.val = r.val]
            /\ UNCHANGED <<arrays, faces, cached, recalc, is_triangulated_,
                           is_validated_, alive>>

(* ------------------------- the other mesh ends ------------------------ *)

\* The last shared_ptr to the other mesh is released: the weak_ptr of the
\* faces constructed for it expires (Face::get_model_shptr).
DestroyOther ==
    /\ Other \in alive
    /\ alive' = alive \ {Other}
    /\ call' = Returned("~Model")
    /\ UNCHANGED <<arrays, faces, cached, recalc, is_triangulated_,
                   is_validated_>>

(* ------------------ the calls made on the mesh: Spec ------------------- *)

\* A point of the plane z = 0 in homogeneous coordinates.
P(x, y) == <<x, y, 0, 1>>

\* The vertex lists the meshes are built from: a quadrilateral with three
\* collinear vertices, a strictly convex pentagon, and a concave heptagon
\* of which no three successive vertices are collinear.
Shapes ==
    { << P(0, 0), P(1, 0), P(2, 0), P(1, 1) >>,
      << P(0, 0), P(1, 0), P(2, 1), P(1, 2), P(0, 1) >>,
      << P(-3, -1), P(-2, -1), P(1, -3), P(3, -1), P(1, 3), P(-1, 1),
         P(-2, 1) >> }

\* The points add_vertex is called with: the next vertex of a shape that the
\* vertices added so far begin.
NextPoints ==
    LET n == Len(vertices)
    IN  {s[n + 1] : s \in {t \in Shapes : /\ Len(t) > n
                                           /\ SubSeq(t, 1, n) = vertices}}

\* The face over ring positions 0 .. k-1.
Ring(k) == NewFace(This, [i \in 1..k |-> i - 1], <<>>, <<>>)

\* The faces add_face is called with.
GeoFaces == {Ring(k) : k \in 3..MaxVerts}

AddVertexStep ==
    \E p \in NextPoints : Len(vertices) < MaxVerts /\ AddVertex(p)

AddFaceStep == \E f \in GeoFaces : Len(faces) < MaxFaces /\ AddFace(f)

Next ==
    \/ AddVertexStep
    \/ AddFaceStep
    \/ Validate
    \/ ConvexifyFaces
    \/ Triangulate

Spec == Init /\ [][Next]_vars

(* ------------- faces added to an empty mesh: SpecDedup ---------------- *)

\* The rings over the indices 0 .. MaxIdx of 3 to MaxRing vertices, in
\* increasing and in decreasing order.
DedupRings ==
    UNION {{SortedSeq(S), [i \in 1..Cardinality(S) |->
                             SortedSeq(S)[Cardinality(S) + 1 - i]]} :
             S \in {T \in SUBSET (0..MaxIdx) :
                      Cardinality(T) >= 3 /\ Cardinality(T) <= MaxRing}}

DedupFaces == {NewFace(This, r, <<>>, <<>>) : r \in DedupRings}

NextDedup == \E f \in DedupFaces : Len(faces) < MaxFaces /\ AddFace(f)

SpecDedup == Init /\ [][NextDedup]_vars

(* ------------ arrays, index sequences and validate: SpecVal ----------- *)

\* The vertices add_vertex is called with, in this order: the corners of a
\* tetrahedron.
Tetrahedron ==
    << <<0, 0, 0, 1>>, <<1, 0, 0, 1>>, <<0, 1, 0, 1>>, <<0, 0, 1, 1>> >>

TetraNextPoints ==
    IF Len(vertices) < Len(Tetrahedron)
    THEN {Tetrahedron[Len(vertices) + 1]}
    ELSE {}

\* The faces add_face is called with: faces with and without texture and
\* normal indices, of the right and of a wrong length, and a face of the
\* other mesh.
ValFaces ==
    { NewFace(This, <<0, 1, 2>>, <<>>, <<>>),
      NewFace(This, <<0, 1>>, <<0, 0, 0>>, <<0>>),
      NewFace(This, <<1, 2, 3>>, <<0, 0>>, <<0>>),
      NewFace(This, <<0, 2, 3>>, <<0, 0, 0>>, <<0, 0, 0>>),
      NewFace(This, <<0, 1, 3>>, <<>>, <<0, 0>>),
      NewFace(Other, <<0, 1, 2>>, <<>>, <<>>) }

TetraAddVertex ==
    \E p \in TetraNextPoints : Len(vertices) < MaxVerts /\ AddVertex(p)

ValAddTextureVertex == AddTextureVertex(<<0, 0, 0>>)

ValAddVertexNormal == AddVertexNormal(<<1, 0, 0>>)

ValAddFace == \E f \in ValFaces : Len(faces) < MaxFaces /\ AddFace(f)

NextVal ==
    \/ TetraAddVertex
    \/ ValAddTextureVertex
    \/ ValAddVertexNormal
    \/ ValAddFace
    \/ Validate
    \/ IsConnected
    \/ DestroyOther

SpecVal == Init /\ [][NextVal]_vars

(* ------------------- queries and transform: SpecQuery ----------------- *)

\* The faces add_face is called with, in this order: the faces of the
\* tetrahedron, wound so that their normals point away from it.
TetraFaces ==
    << NewFace(This, <<0, 2, 1>>, <<>>, <<>>),
       NewFace(This, <<0, 1, 3>>, <<>>, <<>>),
       NewFace(This, <<0, 3, 2>>, <<>>, <<>>),
       NewFace(This, <<1, 2, 3>>, <<>>, <<>>) >>

TetraNextFaces ==
    IF Len(faces) < Len(TetraFaces) THEN {TetraFaces[Len(faces) + 1]} ELSE {}

\* The matrix transform is called with: a scaling by 2.
Scale2 == << <<2, 0, 0, 0>>, <<0, 2, 0, 0>>, <<0, 0, 2, 0>>, <<0, 0, 0, 1>> >>

Matrices == {Scale2}

QueryAddFace == \E f \in TetraNextFaces : AddFace(f)

QueryTransform == \E tmat \in Matrices : Transform(tmat)

NextQuery ==
    \/ TetraAddVertex
    \/ ValAddTextureVertex
    \/ ValAddVertexNormal
    \/ QueryAddFace
    \/ QueryTransform
    \/ IsConnected
    \/ IsConvex
    \/ IsWatertight

SpecQuery == Init /\ [][NextQuery]_vars

(* ----------------- specification: connectivity of meshes -------------- *)

\* The faces add_face is called with: three triangles that form a chain
\* whose middle link comes first in the container, and the face whose ring
\* names every vertex the mesh holds.
ConnFaces ==
    {NewFace(This, r, <<>>, <<>>) :
       r \in {<<0, 1, 6>>, <<1, 2, 3>>, <<4, 5, 6>>}}
    \cup (IF Len(vertices) >= 3 THEN {Ring(Len(vertices))} ELSE {})

ConnAddVertex ==
    Len(vertices) < MaxConnVerts /\ AddVertex(P(Len(vertices), 0))

ConnAddFace == \E f \in ConnFaces : Len(faces) < MaxFaces /\ AddFace(f)

NextConn ==
    \/ ConnAddVertex
    \/ ConnAddFace
    \/ IsConnected

SpecConn == Init /\ [][NextConn]_vars

(* ------------- open and branching surfaces: SpecEdge ------------------ *)

\* The vertices add_vertex is called with, in this order: the corners of a
\* tetrahedron and a point beyond its slanted face.
EdgePoints == Tetrahedron \o << <<1, 1, 1, 1>> >>

EdgeNextPoints ==
    IF Len(vertices) < Len(EdgePoints)
    THEN {EdgePoints[Len(vertices) + 1]}
    ELSE {}

\* The faces add_face is called with: the triangles over the five vertices
\* with ascending indices, one triangle wound the other way, and a
\* quadrilateral.
EdgeFaces ==
    {NewFace(This, <<a, b, c>>, <<>>, <<>>) :
        <<a, b, c>> \in {t \in (0..4) \X (0..4) \X (0..4) :
                            t[1] < t[2] /\ t[2] < t[3]}}
    \cup {NewFace(This, <<0, 2, 1>>, <<>>, <<>>),
          NewFace(This, <<0, 1, 4, 2>>, <<>>, <<>>)}

EdgeAddVertex ==
    \E p \in EdgeNextPoints : Len(vertices) < MaxVerts /\ AddVertex(p)

EdgeAddFace ==
    \E f \in EdgeFaces :
        /\ Len(vertices) = Len(EdgePoints)
        /\ Len(faces) < MaxFaces
        /\ AddFace(f)

NextEdge == EdgeAddVertex \/ EdgeAddFace \/ IsWatertight

SpecEdge == Init /\ [][NextEdge]_vars

(* ---------------------- closed surfaces: SpecManifold ----------------- *)

\* A chain of three tetrahedra: the second shares vertex 3 with the first
\* and vertex 6 with the third.
ChainPoints ==
    Tetrahedron \o
    << <<1, 0, 2, 1>>, <<0, 1, 2, 1>>, <<0, 0, 3, 1>>,
       <<1, 0, 4, 1>>, <<0, 1, 4, 1>>, <<0, 0, 5, 1>> >>

\* The four faces of the tetrahedron over the vertices a, b, c, d.
TetraOver(a, b, c, d) ==
    << NewFace(This, <<a, c, b>>, <<>>, <<>>),
       NewFace(This, <<a, b, d>>, <<>>, <<>>),
       NewFace(This, <<a, d, c>>, <<>>, <<>>),
       NewFace(This, <<b, c, d>>, <<>>, <<>>) >>

\* A pyramid over a convex polygon of as many corners as an int has bits:
\* the corners lie on a parabola, the apex is the last vertex.
PyramidPoints ==
    [i \in 1..(IntBits + 1) |->
        IF i <= IntBits THEN <<i - 1, (i - 1) * (i - 1), 0, 1>>
        ELSE <<IntBits \div 2, (IntBits * IntBits) \div 3, 1, 1>>]

PyramidFaces ==
    << NewFace(This, [i \in 1..IntBits |-> IntBits - i], <<>>, <<>>) >> \o
    [i \in 1..IntBits |->
        NewFace(This, <<i - 1, i % IntBits, IntBits>>, <<>>, <<>>)]

\* The meshes that are built, each by its vertices and then its faces, in
\* this order: the tetrahedron, the tetrahedron and a vertex of no face, the
\* chain of tetrahedra, and the pyramid.
ClosedMeshes ==
    { [pts |-> Tetrahedron, fcs |-> TetraFaces],
      [pts |-> SubSeq(ChainPoints, 1, 5), fcs |-> TetraFaces],
      [pts |-> ChainPoints,
       fcs |-> TetraOver(0, 1, 2, 3) \o TetraOver(3, 4, 5, 6)
               \o TetraOver(6, 7, 8, 9)],
      [pts |-> PyramidPoints, fcs |-> PyramidFaces] }

ManifoldAddVertex ==
    \E m \in ClosedMeshes :
        /\ faces = <<>>
        /\ Len(m.pts) > Len(vertices)
        /\ SubSeq(m.pts, 1, Len(vertices)) = vertices
        /\ AddVertex(m.pts[Len(vertices) + 1])

ManifoldAddFace ==
    \E m \in ClosedMeshes :
        /\ m.pts = vertices
        /\ Len(faces) < Len(m.fcs)
        /\ AddFace(m.fcs[Len(faces) + 1])

NextManifold == ManifoldAddVertex \/ ManifoldAddFace \/ IsWatertight

SpecManifold == Init /\ [][NextManifold]_vars

(* ------------ area, volume and the writer: SpecArea ------------------- *)

NextArea ==
    \/ AddVertexStep
    \/ AddFaceStep
    \/ Triangulate
    \/ SurfaceArea
    \/ Volume
    \/ StlWrite

SpecArea == Init /\ [][NextArea]_vars

(* ------------------ meshes with invalid faces: SpecErr ---------------- *)

\* The vertices add_vertex is called with, in this order: the corners of a
\* convex quadrilateral.
ErrPoints == << P(0, 0), P(1, 0), P(2, 1), P(1, 2) >>

\* The faces add_face is called with: a triangle, the quadrilateral, a face
\* of two vertices and a triangle with two texture indices.
ErrFaces ==
    { NewFace(This, <<0, 1, 2>>, <<>>, <<>>),
      NewFace(This, <<0, 1, 2, 3>>, <<>>, <<>>),
      NewFace(This, <<0, 3>>, <<>>, <<>>),
      NewFace(This, <<1, 2, 3>>, <<0, 0>>, <<>>) }

ErrAddVertex ==
    /\ Len(vertices) < Len(ErrPoints)
    /\ AddVertex(ErrPoints[Len(vertices) + 1])

ErrAddFace == \E f \in ErrFaces : Len(faces) < MaxFaces /\ AddFace(f)

NextErr ==
    \/ ErrAddVertex
    \/ ErrAddFace
    \/ Validate
    \/ Triangulate
    \/ ConvexifyFaces
    \/ SurfaceArea
    \/ Volume
    \/ IsConnected
    \/ IsConvex
    \/ IsWatertight

SpecErr == Init /\ [][NextErr]_vars

(* ------------------ a face the caller holds: SpecFace ------------------ *)

\* The vertex array of the other mesh: the corners of a tetrahedron.
OtherVertices == Tetrahedron

\* The vertex array of the mesh that face f was constructed for.
OwnerVertices(f) == IF f.model = This THEN vertices ELSE OtherVertices

\* The record of a call that was made on the face the caller holds, or that
\* was given it, and left it as f.  The caller holds one face at a time: at
\* first an empty face of this mesh.  Face::add_vertex and
\* Face::add_texture_vertex add the index they were called with.
FaceCall(op, f, err) == Call(op, f, err, <<>>, FALSE)

\* Face::Face(model): the caller lets go of the face and constructs an empty
\* one for a mesh that is alive.
FaceCreate ==
    \E m \in alive :
        /\ call' = FaceCall("Face", NewFace(m, <<>>, <<>>, <<>>), "none")
        /\ UNCHANGED <<arrays, faces, cached, recalc, is_triangulated_,
                       is_validated_, alive>>

\* The indices Face::add_vertex and Face::add_texture_vertex are called with.
HeldIndices == 0..MaxHeld

\* Face::add_vertex.
FaceAddVertex ==
    \E i \in HeldIndices :
        /\ Len(AppendUnique(call.arg.v, i)) <= MaxHeld
        /\ call' = [FaceCall("Face::add_vertex",
                             [call.arg EXCEPT !.v = AppendUnique(@, i)],
                             "none") EXCEPT !.val = <<i>>]
        /\ UNCHANGED <<arrays, faces, cached, recalc, is_triangulated_,
                       is_validated_, alive>>

\* Face::add_texture_vertex.
FaceAddTextureVertex ==
    \E i \in 0..MaxAux :
        /\ Len(AppendUnique(call.arg.vt, i)) <= MaxAux + 1
        /\ call' = [FaceCall("Face::add_texture_vertex",
                             [call.arg EXCEPT !.vt = AppendUnique(@, i)],
                             "none") EXCEPT !.val = <<i>>]
        /\ UNCHANGED <<arrays, faces, cached, recalc, is_triangulated_,
                       is_validated_, alive>>

\* Face::set_normal.
FaceSetNormal ==
    /\ ~call.arg.nset
    /\ call' = FaceCall("set_normal", WithNormal(call.arg, <<0, 0, 1>>),
                        "none")
    /\ UNCHANGED <<arrays, faces, cached, recalc, is_triangulated_,
                   is_validated_, alive>>

\* Face::normal and Face::compute_normal without the call of
\* get_model_shptr: the vertex array is read whether its mesh is alive or
\* not.
NormalErrorUnlocked(f, mv) ==
    IF f.nset THEN "none"
    ELSE IF Len(f.v) < 3 THEN TooShort
    ELSE IF \E i \in Range(f.v) : i >= Len(mv) THEN OutOfRange
    ELSE "none"

\* Face::normal, lines 71-78, and Face::compute_normal, lines 138-153: what
\* the call throws for face f whose mesh holds the vertices mv; "none" if it
\* returns.  A normal that is set is returned as it is.
NormalError(f, mv) ==
    IF f.nset THEN "none"
    ELSE IF Len(f.v) < 3 THEN TooShort
    ELSE IF f.model \notin alive
        THEN "The associated Model object has been expired."
    ELSE IF \E i \in Range(f.v) : i >= Len(mv) THEN OutOfRange
    ELSE "none"

\* Face::normal on the held face: the face keeps the normal it computed.
FaceNormal ==
    LET f   == call.arg
        mv  == OwnerVertices(f)
        err == NormalError(f, mv)
    IN  /\ IF err # "none"
           THEN call' = FaceCall("normal", f, err)
           ELSE \E nrm \in Normal(mv, f) :
                   call' = [FaceCall("normal", WithNormal(f, nrm), "none")
                               EXCEPT !.val = <<nrm>>]
        /\ UNCHANGED <<arrays, faces, cached, recalc, is_triangulated_,
                       is_validated_, alive>>

\* Model::add_vertex while the caller holds the face.
HeldAddVertex ==
    \E p \in TetraNextPoints :
        /\ vertices' = Append(vertices, p)
        /\ NeedsRecalcProperties
        /\ call' = FaceCall("add_vertex", call.arg, "none")
        /\ UNCHANGED <<texture_vertices, vertex_normals, faces, cached,
                       is_triangulated_, is_validated_, alive>>

\* Model::add_face with the held face.
HeldAddFace == Len(faces) < MaxHeldFaces /\ AddFace(call.arg)

\* The other mesh ends while the caller holds the face.
HeldDestroyOther ==
    /\ Other \in alive
    /\ alive' = alive \ {Other}
    /\ call' = FaceCall("~Model", call.arg, "none")
    /\ UNCHANGED <<arrays, faces, cached, recalc, is_triangulated_,
                   is_validated_>>

\* Faces are constructed empty and filled by Face::add_vertex and
\* Face::add_texture_vertex.
NextFace ==
    \/ FaceCreate
    \/ FaceAddVertex
    \/ FaceAddTextureVertex

SpecFace == Init /\ [][NextFace]_vars

(* ------------- faces whose mesh may have ended: SpecOwner -------------- *)

\* The index sequences faces are constructed with: a triangle, a
\* quadrilateral, a face of two vertices and a triangle with an index that
\* no vertex array reaches.
OwnerRings == {<<0, 1, 2>>, <<0, 1, 2, 3>>, <<0, 1>>, <<1, 2, 4>>}

\* Face::Face(model, vertices): the caller lets go of the face and
\* constructs one with a given index sequence for a mesh that is alive.
FaceConstruct ==
    \E m \in alive, v \in OwnerRings :
        /\ call' = FaceCall("Face", NewFace(m, v, <<>>, <<>>), "none")
        /\ UNCHANGED <<arrays, faces, cached, recalc, is_triangulated_,
                       is_validated_, alive>>

NextOwner ==
    \/ FaceConstruct
    \/ FaceSetNormal
    \/ FaceNormal
    \/ HeldAddVertex
    \/ HeldAddFace
    \/ HeldDestroyOther

SpecOwner == Init /\ [][NextOwner]_vars

(* --------------------- a bitset on its own: SpecBits ------------------- *)

\* The bit counts bitsets are constructed with: the smallest ones and those
\* next to the width of an int and of a storage word.
BitSizes ==
    {n \in {1, IntBits - 1, IntBits, IntBits + 1, WordS, WordS + 1} :
        n <= MaxBits}

SizeMismatch == "The two Bitset must have the same size."

\* The operations that are called on a bitset.
BitsetOps ==
    {"Bitset", "all", "any", "none", "[]", "set", "flip", "reset",
     "|", "&", "^", "|=", "&=", "^="}

\* The record of a call on the bitset the caller holds: the build of the
\* program, the bitset after the call, the index or the other operand the
\* call was given, the bitset a binary operator returned, the error it
\* threw and the boolean it returned.  A call without an index has ind = -1;
\* one without another operand or without a result has the bitset itself
\* there.
BitsetCall(op, bld, bs, ind, other, res, err, ret) ==
    [Call(op, NoFace, err, <<>>, ret)
        EXCEPT !.val = [bld |-> bld, bs |-> bs, ind |-> ind,
                        other |-> other, res |-> res]]

\* A call that only reads the held bitset.
BitsetQuery(op, ind, err, ret) ==
    /\ call' = BitsetCall(op, call.val.bld, call.val.bs, ind, call.val.bs,
                          call.val.bs, err, ret)
    /\ UNCHANGED <<arrays, faces, cached, recalc, is_triangulated_,
                   is_validated_, alive>>

\* A call that returns and leaves the held bitset as bs.
BitsetUpdate(op, ind, bs) ==
    /\ call' = BitsetCall(op, call.val.bld, bs, ind, bs, bs, "none", FALSE)
    /\ UNCHANGED <<arrays, faces, cached, recalc, is_triangulated_,
                   is_validated_, alive>>

\* Bitset::Bitset(n) in a program of some build.
BitsCreate ==
    \E bld \in Builds, n \in BitSizes :
        /\ call.op \notin BitsetOps
        /\ call' = BitsetCall("Bitset", bld, BitsetNew(bld, n), -1,
                              BitsetNew(bld, n), BitsetNew(bld, n),
                              "none", FALSE)
        /\ UNCHANGED <<arrays, faces, cached, recalc, is_triangulated_,
                       is_validated_, alive>>

\* The indices operator[], set and flip are called with: the lowest index
\* whose bit is 0, the last index, and the index past the last.
BitIndices(bs) ==
    LET unset == {i \in 0..(bs.bitcnt_ - 1) : i \notin bs.words_}
    IN  {bs.bitcnt_ - 1, bs.bitcnt_}
        \cup {i \in unset : \A j \in unset : i <= j}

\* Bitset::operator[].
BitsGet ==
    /\ call.op \in BitsetOps
    /\ \E ind \in BitIndices(call.val.bs) :
          IF CheckIndexThrows(call.val.bs, ind)
          THEN BitsetQuery("[]", ind, OutOfRange, FALSE)
          ELSE BitsetQuery("[]", ind, "none",
                           BitsetGet(call.val.bld, call.val.bs, ind))

\* Bitset::set.
BitsSet ==
    /\ call.op \in BitsetOps
    /\ \E ind \in BitIndices(call.val.bs), val \in BOOLEAN :
          IF CheckIndexThrows(call.val.bs, ind)
          THEN BitsetQuery("set", ind, OutOfRange, FALSE)
          ELSE BitsetUpdate("set", ind,
                            BitsetSet(call.val.bld, call.val.bs, ind, val))

\* Bitset::flip.
BitsFlip ==
    /\ call.op \in BitsetOps
    /\ \E ind \in BitIndices(call.val.bs) :
          IF CheckIndexThrows(call.val.bs, ind)
          THEN BitsetQuery("flip", ind, OutOfRange, FALSE)
          ELSE BitsetUpdate("flip", ind,
                            BitsetFlip(call.val.bld, call.val.bs, ind))

\* Bitset::reset.
BitsReset ==
    /\ call.op \in BitsetOps
    /\ BitsetUpdate("reset", -1, BitsetReset(call.val.bs))

\* Bitset::all.
BitsAll ==
    /\ call.op \in BitsetOps
    /\ \E r \in BitsetAll(call.val.bs) : BitsetQuery("all", -1, "none", r)

\* Bitset::any.
BitsAny ==
    /\ call.op \in BitsetOps
    /\ BitsetQuery("any", -1, "none", BitsetAny(call.val.bs))

\* Bitset::none.
BitsNone ==
    /\ call.op \in BitsetOps
    /\ BitsetQuery("none", -1, "none", BitsetNone(call.val.bs))

\* The other operands of the binary operators for a bitset of n bits: a
\* new bitset of n bits, one whose last bit was set, and a bitset of one bit
\* more whose last bit was set.
Operands(bld, n) ==
    {BitsetNew(bld, n),
     BitsetSet(bld, BitsetNew(bld, n), n - 1, TRUE),
     BitsetSet(bld, BitsetNew(bld, n + 1), n, TRUE)}

\* Bitset::operator|, operator& and operator^: the result is a new bitset.
BitsCombine ==
    /\ call.op \in BitsetOps
    /\ \E op \in {"|", "&", "^"}, other \in Operands(call.val.bld, call.val.bs.bitcnt_) :
          /\ call' =
                IF CompareSizesThrows(call.val.bs, other)
                THEN BitsetCall(op, call.val.bld, call.val.bs, -1, other,
                                call.val.bs, SizeMismatch, FALSE)
                ELSE BitsetCall(op, call.val.bld, call.val.bs, -1, other,
                                [BitsetNew(call.val.bld, call.val.bs.bitcnt_)
                                    EXCEPT !.words_ =
                                        BitsetCombine(op, call.val.bs, other)],
                                "none", FALSE)
          /\ UNCHANGED <<arrays, faces, cached, recalc, is_triangulated_,
                         is_validated_, alive>>

\* Bitset::operator|=, operator&= and operator^=.
BitsCombineAssign ==
    /\ call.op \in BitsetOps
    /\ \E op \in {"|", "&", "^"}, other \in Operands(call.val.bld, call.val.bs.bitcnt_) :
          /\ call' =
                IF CompareSizesThrows(call.val.bs, other)
                THEN BitsetCall(op \o "=", call.val.bld, call.val.bs, -1,
                                other, call.val.bs, SizeMismatch, FALSE)
                ELSE LET bs == [call.val.bs EXCEPT !.words_ =
                                    BitsetCombine(op, call.val.bs, other)]
                     IN  BitsetCall(op \o "=", call.val.bld, bs, -1, other,
                                    bs, "none", FALSE)
          /\ UNCHANGED <<arrays, faces, cached, recalc, is_triangulated_,
                         is_validated_, alive>>

NextBits ==
    \/ BitsCreate
    \/ BitsGet
    \/ BitsSet
    \/ BitsFlip
    \/ BitsReset
    \/ BitsAll
    \/ BitsAny
    \/ BitsNone
    \/ BitsCombine
    \/ BitsCombineAssign

SpecBits == Init /\ [][NextBits]_vars

(* ---------------- single concave faces: SpecConcave -------------------- *)

\* The ring of the test section "Only one concavity", its coordinates
\* multiplied by 4.
OneConcavity ==
    << <<4, 2, 0, 1>>, <<0, 2, 0, 1>>, <<1, 2, 4, 1>>, <<-4, 2, 2, 1>>,
       <<-4, 2, -4, 1>>, <<-1, 2, -4, 1>> >>

\* The ring of the test section "More concavities", its coordinates
\* multiplied by 10; the first coordinate is the same for all vertices.
MoreConcavities ==
    << <<-78, 25, -20, 1>>, <<-78, 30, 0, 1>>, <<-78, 20, 10, 1>>,
       <<-78, 30, 15, 1>>, <<-78, 40, 10, 1>>, <<-78, 60, 25, 1>>,
       <<-78, 60, -15, 1>>, <<-78, 50, -10, 1>> >>

\* The vertex lists of SpecConcave, each the ring of a planar simple
\* concave polygon: the two rings of the test, the heptagon of Shapes, an
\* arrow head, an L and a U.
ConcaveShapes ==
    { OneConcavity,
      MoreConcavities,
      << P(-3, -1), P(-2, -1), P(1, -3), P(3, -1), P(1, 3), P(-1, 1),
         P(-2, 1) >>,
      << P(0, 0), P(4, 0), P(1, 1), P(0, 4) >>,
      << P(0, 0), P(2, 0), P(2, 1), P(1, 1), P(1, 2), P(0, 2) >>,
      << P(0, 0), P(3, 0), P(3, 3), P(2, 3), P(2, 1), P(1, 1), P(1, 3),
         P(0, 3) >> }

\* The points add_vertex is called with: the next vertex of a concave shape
\* that the vertices added so far begin.
ConcaveNextPoints ==
    LET n == Len(vertices)
    IN  {s[n + 1] : s \in {t \in ConcaveShapes :
                              /\ Len(t) > n
                              /\ SubSeq(t, 1, n) = vertices}}

\* The ring of all n vertices that starts at position k and runs forward
\* (dir = 1) or backward (dir = -1).
Rotated(n, k, dir) == [i \in 1..n |-> (k + dir * (i - 1) + n) % n]

\* The faces add_face is called with once the vertices are a concave shape:
\* its ring from any start in either direction.
ConcaveFaces ==
    IF vertices \notin ConcaveShapes THEN {}
    ELSE {NewFace(This, Rotated(Len(vertices), k, dir), <<>>, <<>>) :
            k \in 0..(Len(vertices) - 1), dir \in {1, -1}}

ConcaveAddVertex == \E p \in ConcaveNextPoints : AddVertex(p)

\* The mesh holds a single face.
ConcaveAddFace == \E f \in ConcaveFaces : faces = <<>> /\ AddFace(f)

NextConcave ==
    \/ ConcaveAddVertex
    \/ ConcaveAddFace
    \/ ConvexifyFaces

SpecConcave == Init /\ [][NextConcave]_vars

(* ------------- faces with auxiliary indices: SpecAux ------------------- *)

\* The vertex lists of SpecAux: the convex pentagon and the concave
\* heptagon of Shapes, and the ring of one concavity.
AuxShapes ==
    { << P(0, 0), P(1, 0), P(2, 1), P(1, 2), P(0, 1) >>,
      << P(-3, -1), P(-2, -1), P(1, -3), P(3, -1), P(1, 3), P(-1, 1),
         P(-2, 1) >>,
      OneConcavity }

AuxNextPoints ==
    LET n == Len(vertices)
    IN  {s[n + 1] : s \in {t \in AuxShapes : /\ Len(t) > n
                                              /\ SubSeq(t, 1, n) = vertices}}

AuxAddVertex == \E p \in AuxNextPoints : AddVertex(p)

\* Model::add_texture_vertex, called until there are as many texture
\* vertices as vertices.
AuxAddTextureVertex ==
    /\ Len(texture_vertices) < Len(vertices)
    /\ texture_vertices' = Append(texture_vertices, <<0, 0, 0>>)
    /\ call' = Returned("add_texture_vertex")
    /\ UNCHANGED <<vertices, vertex_normals, faces, cached, recalc,
                   is_triangulated_, is_validated_, alive>>

\* Model::add_vertex_normal, called until there are as many vertex normals
\* as vertices.
AuxAddVertexNormal ==
    /\ Len(vertex_normals) < Len(vertices)
    /\ vertex_normals' = Append(vertex_normals, <<1, 0, 0>>)
    /\ call' = Returned("add_vertex_normal")
    /\ UNCHANGED <<vertices, texture_vertices, faces, cached, recalc,
                   is_triangulated_, is_validated_, alive>>

\* The faces add_face is called with once the vertices are a shape: the
\* ring of all n vertices, without texture indices or with the texture
\* index n-1-p at ring position p, and without normal indices or with the
\* normal index (p+1) mod n at ring position p.
AuxFaces ==
    IF vertices \notin AuxShapes THEN {}
    ELSE LET n == Len(vertices)
         IN  {NewFace(This, Rotated(n, 0, 1), vt, vn) :
                vt \in {<<>>, Rotated(n, n - 1, -1)},
                vn \in {<<>>, Rotated(n, 1, 1)}}

\* The mesh holds a single face.
AuxAddFace == \E f \in AuxFaces : faces = <<>> /\ AddFace(f)

NextAux ==
    \/ AuxAddVertex
    \/ AuxAddTextureVertex
    \/ AuxAddVertexNormal
    \/ AuxAddFace
    \/ Validate
    \/ ConvexifyFaces
    \/ Triangulate

SpecAux == Init /\ [][NextAux]_vars

(* ------------------- copies of the mesh: SpecCopy ---------------------- *)

\* Model::create(other) called with this mesh: the container of the copy is
\* recorded with the call.
CreateCopy ==
    /\ call' = [Returned("create(other)") EXCEPT !.val = CreateFrom(faces)]
    /\ UNCHANGED <<arrays, faces, cached, recalc, is_triangulated_,
                   is_validated_, alive>>

\* Model::triangulate called on the copy that was just made of a valid mesh
\* that is not triangulated, as surface_area, volume and the writer do.
CopyTriangulate ==
    /\ call.op = "create(other)"
    /\ ~is_triangulated_
    /\ ValidateError = "none"
    /\ \E cf \in Convexified(vertices, call.val) :
          \E tf \in Triangulated(cf) :
             call' = [Returned("copy->triangulate") EXCEPT !.val = tf]
    /\ UNCHANGED <<arrays, faces, cached, recalc, is_triangulated_,
                   is_validated_, alive>>

\* Model::add_face with a triangle that was constructed for the other mesh.
CopyAddForeignFace == AddFace(NewFace(Other, <<0, 1, 2>>, <<>>, <<>>))

NextCopy ==
    \/ AddVertexStep
    \/ AddFaceStep
    \/ CopyAddForeignFace
    \/ Validate
    \/ ConvexifyFaces
    \/ Triangulate
    \/ CreateCopy
    \/ CopyTriangulate

SpecCopy == Init /\ [][NextCopy]_vars

(* -------------- scalings and translations: SpecTransform --------------- *)

\* The scaling matrix diag(sx, sy, sz, 1).
Scaling(sx, sy, sz) ==
    << <<sx, 0, 0, 0>>, <<0, sy, 0, 0>>, <<0, 0, sz, 0>>, <<0, 0, 0, 1>> >>

\* The matrix of the translation by (tx, ty, tz).
Translation(tx, ty, tz) ==
    << <<1, 0, 0, tx>>, <<0, 1, 0, ty>>, <<0, 0, 1, tz>>, <<0, 0, 0, 1>> >>

\* The matrices transform is called with: scalings that stretch and mirror
\* the axes differently, and translations.
TransformMatrices ==
    { Scaling(2, 1, -1), Scaling(-1, 2, 1),
      Translation(1, 0, -1), Translation(-1, 1, 0) }

\* The vertex normals add_vertex_normal is called with.
TransformNormals == {<<1, 0, 0>>, <<-1, 1, -1>>}

TransformAddVertex ==
    \E p \in TetraNextPoints : Len(vertices) < MaxAux /\ AddVertex(p)

\* Model::add_vertex_normal, called until there are MaxAux normals.
TransformAddVertexNormal ==
    \E p \in TransformNormals :
        /\ Len(vertex_normals) < MaxAux
        /\ vertex_normals' = Append(vertex_normals, p)
        /\ call' = Returned("add_vertex_normal")
        /\ UNCHANGED <<vertices, texture_vertices, faces, cached, recalc,
                       is_triangulated_, is_validated_, alive>>

TransformStep == \E tmat \in TransformMatrices : Transform(tmat)

NextTransform ==
    \/ TransformAddVertex
    \/ TransformAddVertexNormal
    \/ TransformStep

SpecTransform == Init /\ [][NextTransform]_vars

(* ----------------------- the unit cube: SpecCube ----------------------- *)

\* The corners of the unit cube: corner i is (i % 2, (i \div 2) % 2, i \div 4).
UnitCube ==
    [i \in 1..8 |-> <<(i - 1) % 2, ((i - 1) \div 2) % 2, (i - 1) \div 4, 1>>]

\* The six sides of the unit cube, each ring counter-clockwise seen from
\* outside.
CubeSides ==
    { <<0, 2, 3, 1>>, <<4, 5, 7, 6>>, <<0, 1, 5, 4>>,
      <<2, 6, 7, 3>>, <<0, 4, 6, 2>>, <<1, 3, 7, 5>> }

\* Whether the mesh is the unit cube.
IsUnitCube ==
    /\ vertices = UnitCube
    /\ Len(faces) = 6
    /\ \A s \in CubeSides : \E i \in 1..6 : \E k \in 0..3 :
          faces[i].v = [j \in 1..4 |-> s[((j - 1 + k) % 4) + 1]]

CubeAddVertex ==
    /\ Len(vertices) < Len(UnitCube)
    /\ AddVertex(UnitCube[Len(vertices) + 1])

\* add_face with a side the mesh has not got yet, its ring starting at its
\* first corner or at the opposite one.
CubeAddFace ==
    \E s \in CubeSides : \E k \in {0, 2} :
        /\ vertices = UnitCube
        /\ \A i \in 1..Len(faces) :
              {faces[i].v[j] : j \in 1..4} # {s[j] : j \in 1..4}
        /\ AddFace(NewFace(This, [j \in 1..4 |-> s[((j - 1 + k) % 4) + 1]],
                           <<>>, <<>>))

CubeSurfaceArea == IsUnitCube /\ SurfaceArea

CubeVolume == IsUnitCube /\ Volume

NextCube ==
    \/ CubeAddVertex
    \/ CubeAddFace
    \/ CubeSurfaceArea
    \/ CubeVolume

SpecCube == Init /\ [][NextCube]_vars

(* --------- the cached connectivity and new faces: SpecStale ------------ *)

\* The ring of OneConcavity and two vertices off its plane.
StaleVertices == OneConcavity \o << <<20, 20, 20, 1>>, <<20, 24, 20, 1>> >>

\* The faces add_face is called with: the concave ring, a triangle of three
\* of its corners that are not neighbours, and two triangles that reach the
\* vertices off its plane.
StaleFaces ==
    {NewFace(This, r, <<>>, <<>>) :
       r \in {<<0, 1, 2, 3, 4, 5>>, <<1, 3, 4>>, <<0, 6, 7>>, <<5, 6, 7>>}}

StaleAddVertex ==
    /\ Len(vertices) < Len(StaleVertices)
    /\ AddVertex(StaleVertices[Len(vertices) + 1])

StaleAddFace ==
    \E f \in StaleFaces : vertices = StaleVertices /\ AddFace(f)

NextStale ==
    \/ StaleAddVertex
    \/ StaleAddFace
    \/ ConvexifyFaces
    \/ Triangulate
    \/ IsConnected

SpecStale == Init /\ [][NextStale]_vars

(* ------------------ the ear stepping alone: SpecEar -------------------- *)

\* Line 265: the two index triples before the first step.
trind == << <<0, 1, 2>>, <<-1, 0, 2>> >>

\* Lines 263-267: the loop of triangulate begins on a face of fvcnt > 3
\* ring vertices.  The record holds the two triples, the one whose turn it
\* is (1 or 2), the ring positions emitted so far, and whether the loop is
\* still running.
EarBegin ==
    \E fvcnt \in 4..MaxEar :
        /\ call' = [Call("triangulate:face", NoFace, "none", <<>>, FALSE)
                       EXCEPT !.val = [fvcnt |-> fvcnt, trind |-> trind,
                                       i |-> 1, emitted |-> <<>>,
                                       more |-> TRUE]]
        /\ UNCHANGED <<arrays, faces, cached, recalc, is_triangulated_,
                       is_validated_, alive>>

\* Lines 270-282: one turn of the inner loop, which emits a triangle and
\* advances its triple, or leaves both loops.
EarStep ==
    /\ call.op \in {"triangulate:face", "triangulate:ear"}
    /\ call.val.more
    /\ LET st    == call.val
           fvcnt == st.fvcnt
           t     == st.trind[st.i]
           ivec  == <<CRem(fvcnt + t[1], fvcnt), CRem(fvcnt + t[2], fvcnt),
                      CRem(fvcnt + t[3], fvcnt)>>
           step  == trind_step[st.i]
       IN  call' = [Call("triangulate:ear", NoFace, "none", <<>>, FALSE)
                       EXCEPT !.val =
                          IF ivec[1] = ivec[3]
                          THEN [st EXCEPT !.more = FALSE]
                          ELSE [st EXCEPT
                                  !.trind[st.i] = <<t[1] + step[1],
                                                    t[2] + step[2],
                                                    t[3] + step[3]>>,
                                  !.i = 3 - st.i,
                                  !.emitted = Append(st.emitted, ivec)]]
    /\ UNCHANGED <<arrays, faces, cached, recalc, is_triangulated_,
                   is_validated_, alive>>

NextEar == EarBegin \/ EarStep

SpecEar == Init /\ [][NextEar]_vars

(* ------------- the queue of convexify_faces: SpecQueue ----------------- *)

\* The vertex lists of SpecQueue: the concave shapes, and four vertices on
\* one line, whose ring has a normal of NaN.
QueueShapes ==
    ConcaveShapes \cup {<< P(0, 0), P(1, 0), P(2, 0), P(3, 0) >>}

QueueNextPoints ==
    LET n == Len(vertices)
    IN  {s[n + 1] : s \in {t \in QueueShapes :
                              /\ Len(t) > n
                              /\ SubSeq(t, 1, n) = vertices}}

\* The loop over tmp_faces is running.
QueueRunning ==
    /\ call.op \in {"convexify_faces:face", "convexify_faces:pop"}
    /\ call.val.queue # <<>>

\* The loop over tmp_faces has ended.
QueueEmpty ==
    /\ call.op = "convexify_faces:pop"
    /\ call.val.queue = <<>>

\* convexify_faces is one call: nothing else happens to the mesh while its
\* loop is running.
QueueAddVertex ==
    /\ ~QueueRunning
    /\ \E p \in QueueNextPoints : AddVertex(p)

\* The mesh holds a single face, the ring of all vertices from any start in
\* either direction.
QueueAddFace ==
    /\ ~QueueRunning
    /\ vertices \in QueueShapes
    /\ faces = <<>>
    /\ \E k \in 0..(Len(vertices) - 1), dir \in {1, -1} :
          AddFace(NewFace(This, Rotated(Len(vertices), k, dir), <<>>, <<>>))

\* Lines 116-143: convexify_faces on a valid mesh that is not triangulated
\* moves a face that is no triangle to the queue and clears the visited
\* edges.
QueueBegin ==
    /\ ~QueueRunning
    /\ ~is_triangulated_
    /\ ValidateError = "none"
    /\ \E k \in 1..Len(faces) :
          /\ Len(faces[k].v) # 3
          /\ call' = [Call("convexify_faces:face", NoFace, "none", <<>>,
                           FALSE)
                         EXCEPT !.val = [queue |-> <<faces[k]>>,
                                         visited |-> {}]]
    /\ UNCHANGED <<arrays, faces, cached, recalc, is_triangulated_,
                   is_validated_, alive>>

\* Lines 144-218: one turn of the loop over tmp_faces.  The face at the
\* front leaves the queue; if an edge splits it, its parts join the queue
\* at the back.
QueuePop ==
    /\ QueueRunning
    /\ LET queue   == call.val.queue
           visited == call.val.visited
           tmpf    == Head(queue)
           v       == tmpf.v
           Pop(nrm) ==
              LET sc == ScanEdges(vertices, v, nrm, 0, visited, FALSE)
              IN  IF ~sc.split
                  THEN [queue |-> Tail(queue), visited |-> sc.visited]
                  ELSE [queue |-> Tail(queue) \o <<SubFace(tmpf, sc.inner)>>
                                    \o [k \in 1..Len(sc.outer) |->
                                          SubFace(tmpf, sc.outer[k])],
                        visited |-> sc.visited]
       IN  \E st \in (IF Len(v) = 3
                      THEN {[queue |-> Tail(queue),
                             visited |-> visited
                                \cup {<<v[1], v[2]>>, <<v[2], v[3]>>,
                                      <<v[3], v[1]>>}]}
                      ELSE IF Len(v) < 3 THEN {Pop(Zero3)}
                      ELSE {Pop(nrm) : nrm \in Normal(vertices, tmpf)}) :
              call' = [Call("convexify_faces:pop", NoFace, "none", <<>>,
                            FALSE)
                          EXCEPT !.val = st]
    /\ UNCHANGED <<arrays, faces, cached, recalc, is_triangulated_,
                   is_validated_, alive>>

NextQueue ==
    \/ QueueAddVertex
    \/ QueueAddFace
    \/ QueueBegin
    \/ QueuePop

\* The loop of convexify_faces waits for nothing: while the queue holds a
\* face, its next turn is taken.  This is weak fairness of QueuePop, written
\* out with QueueRunning for ENABLED <<QueuePop>>_vars: QueuePop has no guard
\* but QueueRunning, and every turn changes the queue.
QueuePopFair == []<>(~QueueRunning) \/ []<><<QueuePop>>_vars

SpecQueue == Init /\ [][NextQueue]_vars /\ QueuePopFair

(* ------------------------------ properties ---------------------------- *)

IdxSet(f) == Range(f.v)

Shared(f, g) == Cardinality(IdxSet(f) \cap IdxSet(g))

\* The vertex, texture and normal index sequences of the faces of a
\* container, in container order.
FaceIndices(fs) == [i \in 1..Len(fs) |-> <<fs[i].v, fs[i].vt, fs[i].vn>>]

\* A step is a call of add_face that returned.
AddFaceReturns == call'.op = "add_face" /\ call'.err = "none"

\* C1: add_face of a face of this mesh leaves the number of faces as it is
\* when a face of the container has the same index set as the new face or
\* shares three or more indices with it.
C1_DuplicateLeavesCount ==
    [][(/\ AddFaceReturns
        /\ call'.arg.model = This
        /\ \E i \in 1..Len(faces) :
              \/ IdxSet(faces[i]) = IdxSet(call'.arg)
              \/ Shared(faces[i], call'.arg) >= 3)
       => Len(faces') = Len(faces)]_vars

\* C2: add_face of a face of at least three indices whose index set differs
\* from that of every face of the container and shares at most two indices
\* with it makes the container one face longer, and a lookup of the face
\* then finds it.
C2_DistinctFaceInserted ==
    [][(/\ AddFaceReturns
        /\ Len(call'.arg.v) >= 3
        /\ \A i \in 1..Len(faces) :
              /\ IdxSet(faces[i]) # IdxSet(call'.arg)
              /\ Shared(faces[i], call'.arg) <= 2)
       => /\ Len(faces') = Len(faces) + 1
          /\ \A i \in SetFind(faces', call'.arg) :
                i # 0 /\ faces'[i] = call'.arg]_vars

\* A face was added to a container of two faces it shares at most two
\* indices with, and is the third face of it.
C2_Witness ==
    /\ call.op = "add_face"
    /\ call.err = "none"
    /\ Len(faces) = 3
    /\ \E i \in 1..3 :
          /\ faces[i] = call.arg
          /\ \A j \in (1..3) \ {i} : Shared(faces[j], call.arg) <= 2
          /\ \E j \in (1..3) \ {i} : Shared(faces[j], call.arg) = 2

\* The points of ring v lie in the plane z = 0 and form a convex polygon:
\* they are distinct, every vertex lies on the same side of, or on, the line
\* of every edge, and not all of them lie on one line.
ConvexRing(mv, v) ==
    LET n          == Len(v)
        pos        == 0..(n - 1)
        side(i, k) == Cross(Sub4(RingPt(mv, v, (i + 1) % n), RingPt(mv, v, i)),
                            Sub4(RingPt(mv, v, k), RingPt(mv, v, i)))[3]
    IN  /\ \A i, k \in pos : i # k => RingPt(mv, v, i) # RingPt(mv, v, k)
        /\ \A i \in pos : RingPt(mv, v, i)[3] = 0
        /\ \/ \A i, k \in pos : side(i, k) >= 0
           \/ \A i, k \in pos : side(i, k) <= 0
        /\ \E i, k \in pos : side(i, k) # 0

\* C3: triangulate on a mesh of one valid convex face of n > 3 ring vertices
\* leaves n - 2 faces of three distinct indices of the ring each, which
\* together name every index of the ring, and is_triangulated is true.
C3_ConvexFaceTriangulated ==
    [][(/\ call'.op = "triangulate"
        /\ call'.err = "none"
        /\ Len(faces) = 1
        /\ Len(faces[1].v) > 3
        /\ FirstInvalid = 0
        /\ ConvexRing(vertices, faces[1].v))
       => /\ Len(faces') = Len(faces[1].v) - 2
          /\ \A j \in 1..Len(faces') :
                /\ Len(faces'[j].v) = 3
                /\ Cardinality(IdxSet(faces'[j])) = 3
                /\ IdxSet(faces'[j]) \subseteq IdxSet(faces[1])
          /\ UNION {IdxSet(faces'[j]) : j \in 1..Len(faces')}
               = IdxSet(faces[1])
          /\ is_triangulated_']_vars

\* C4: a call of triangulate that follows a call of triangulate, and a call
\* of convexify_faces that follows a call of convexify_faces, leaves the
\* faces of the container and is_triangulated as they are.
C4_Idempotent ==
    [][(/\ call.err = "none"
        /\ call'.err = "none"
        /\ \/ call.op = "triangulate" /\ call'.op = "triangulate"
           \/ call.op = "convexify_faces" /\ call'.op = "convexify_faces")
       => /\ FaceIndices(faces') = FaceIndices(faces)
          /\ is_triangulated_' = is_triangulated_]_vars

\* C7: a call of add_face that returns and leaves the container as it is,
\* the face being equivalent to a face of the container, leaves
\* is_triangulated as it is.
C7_RejectionIsNoOp ==
    [][(/\ AddFaceReturns
        /\ faces' = faces
        /\ \E i \in 1..Len(faces) : FaceEquiv(faces[i], call'.arg))
       => is_triangulated_' = is_triangulated_]_vars

\* C8: is_triangulated is true if every face of the container has exactly
\* three vertex indices, and false otherwise.
C8_TriangulatedIffAllTriangles ==
    is_triangulated_ = (\A i \in 1..Len(faces) : Len(faces[i].v) = 3)

\* The six checks of a face in the order vertex count, texture length,
\* normal length, vertex range, texture range, normal range, and the message
\* of the first that fails; "ok" if none does.
FirstFailingCheck(f) ==
    IF Len(f.v) < 3 THEN "Face must contain at least 3 vertices."
    ELSE IF f.vt # <<>> /\ Len(f.vt) # Len(f.v)
        THEN "Face must either contain no texture vertices or the same number of texture vertices as geometric vertices."
    ELSE IF f.vn # <<>> /\ Len(f.vn) # Len(f.v)
        THEN "Face must either contain no vertex normals or the same number of vertex normals as geometric vertices."
    ELSE IF \E k \in 1..Len(f.v) : f.v[k] >= Len(vertices)
        THEN "Invalid vertex index."
    ELSE IF \E k \in 1..Len(f.vt) : f.vt[k] >= Len(texture_vertices)
        THEN "Invalid texture vertex index."
    ELSE IF \E k \in 1..Len(f.vn) : f.vn[k] >= Len(vertex_normals)
        THEN "Invalid vertex normal index."
    ELSE "ok"

\* C5: validate on a mesh marked validated checks nothing and returns; on a
\* mesh not marked validated it throws iff a face fails one of the six
\* checks, names the first failing face in container order and reports that
\* face's first failing check, and leaves the mesh not validated; else it
\* returns and marks the mesh validated.
C5_Validate ==
    [][call'.op = "validate" =>
        IF is_validated_
        THEN call'.err = "none" /\ is_validated_'
        ELSE LET bad == {i \in 1..Len(faces) :
                           FirstFailingCheck(faces[i]) # "ok"}
             IN  IF bad = {}
                 THEN call'.err = "none" /\ is_validated_'
                 ELSE LET i == CHOOSE j \in bad : \A k \in bad : j <= k
                      IN  /\ call'.err = FirstFailingCheck(faces[i])
                          /\ call'.errface = faces[i].v
                          /\ ~is_validated_']_vars

\* validate threw for a texture index out of range in a face that is not the
\* first of the container, the faces before it being valid.
C5_Witness ==
    /\ call.op = "validate"
    /\ call.err = "Invalid texture vertex index."
    /\ Len(faces) >= 2
    /\ call.errface # faces[1].v
    /\ FirstFailingCheck(faces[1]) = "ok"

ForeignError == "Faces can only be added to their associated Model."

\* C6: add_face of a face constructed for the other mesh, which is alive,
\* throws ModelError and leaves the container, is_triangulated, is_validated
\* and the three recompute flags as they are.
C6_ForeignFaceRejected ==
    [][(/\ call'.op = "add_face"
        /\ call'.arg.model = Other
        /\ Other \in alive)
       => /\ call'.err = ForeignError
          /\ UNCHANGED <<faces, is_triangulated_, is_validated_, recalc>>]_vars

\* add_face threw for a face of the other mesh on a validated mesh with a
\* face, whose connectivity was cached.
C6_Witness ==
    /\ call.op = "add_face"
    /\ call.err = ForeignError
    /\ call.arg.model = Other
    /\ Other \in alive
    /\ faces # <<>>
    /\ is_validated_
    /\ ~recalc_connectivity_

AllRecalc ==
    recalc_connectivity_ /\ recalc_convexity_ /\ recalc_water_tightness_

\* A step is a call of add_face that inserted the face.
AddFaceAccepted == AddFaceReturns /\ Len(faces') = Len(faces) + 1

\* C9 as stated: after add_vertex and after an accepted add_face the three
\* recompute flags are set and is_validated is false.
C9_FlagsAndValidatedReset ==
    [][(call'.op = "add_vertex" \/ AddFaceAccepted)
       => AllRecalc' /\ ~is_validated_']_vars

\* C9, amended: after add_vertex the three recompute flags are set and
\* is_validated is what it was; after an accepted add_face the three
\* recompute flags are set and is_validated is false.
C9_FlagsReset ==
    [][/\ call'.op = "add_vertex"
          => AllRecalc' /\ is_validated_' = is_validated_
       /\ AddFaceAccepted => AllRecalc' /\ ~is_validated_']_vars

\* add_vertex was called on a validated mesh none of whose recompute flags
\* was set.
C9_Witness ==
    /\ call.op = "add_vertex"
    /\ call.pre.validated
    /\ call.pre.recalc = <<FALSE, FALSE, FALSE>>
    /\ call.pre.nfaces > 0
    /\ AllRecalc
    /\ is_validated_

\* C10: transform leaves the container, the texture vertices, is_triangulated,
\* is_validated, the three cached values and the three recompute flags as
\* they are; a query that follows it and whose value was cached before it
\* returns that value and computes nothing.
C10_TransformFrame ==
    [][/\ call'.op = "transform"
          => UNCHANGED <<faces, texture_vertices, is_triangulated_,
                         is_validated_, cached, recalc>>
       /\ \A q \in 1..3 :
            (/\ call.op = "transform"
             /\ call'.op = <<"is_connected", "is_convex", "is_watertight">>[q]
             /\ ~call.pre.recalc[q])
            => /\ call'.err = "none"
               /\ call'.ret = call.pre.cached[q]
               /\ UNCHANGED <<faces, cached, recalc>>]_vars

\* transform was called on the tetrahedron with its four faces, a texture
\* vertex and a vertex normal, all three values being cached, and changed
\* the vertices and the vertex normal.
C10_Witness ==
    /\ call.op = "transform"
    /\ call.pre.recalc = <<FALSE, FALSE, FALSE>>
    /\ ~recalc_connectivity_ /\ ~recalc_convexity_ /\ ~recalc_water_tightness_
    /\ is_connected_ /\ is_convex_ /\ is_watertight_
    /\ Len(faces) = 4
    /\ vertices # Tetrahedron
    /\ texture_vertices # <<>>
    /\ vertex_normals = << <<2, 0, 0>> >>

RECURSIVE Grow(_, _)
\* The faces of fs that a chain of faces, each sharing a vertex index with
\* the next, joins to a face of S.
Grow(fs, S) ==
    LET T == S \cup {j \in 1..Len(fs) :
                       \E i \in S : IdxSet(fs[i]) \cap IdxSet(fs[j]) # {}}
    IN  IF T = S THEN S ELSE Grow(fs, T)

\* The mesh is connected: it has no faces and no vertices, or it has a
\* face, every face is joined to the first, and every vertex index belongs
\* to a face.
ConnectedMesh(fs, nverts) ==
    IF fs = <<>> THEN nverts = 0
    ELSE /\ Grow(fs, {1}) = 1..Len(fs)
         /\ \A i \in 0..(nverts - 1) : \E k \in 1..Len(fs) : i \in IdxSet(fs[k])

\* C11: is_connected on a valid mesh whose connectivity is to be computed
\* returns true iff the mesh has no faces and no vertices, or has a face,
\* its faces are joined by shared vertex indices and every vertex index
\* belongs to a face.
C11_ConnectedIff ==
    [][(/\ call'.op = "is_connected"
        /\ call'.err = "none"
        /\ recalc_connectivity_)
       => call'.ret = ConnectedMesh(faces, Len(vertices))]_vars

(* ----------------------- C12: edges of the surface --------------------- *)

\* The vertex indices the faces name.
UsedIndices(fs) == UNION {Range(fs[k].v) : k \in 1..Len(fs)}

\* The number of faces one of whose ring edges joins a and b.
FacesWithEdge(fs, a, b) ==
    Cardinality({k \in 1..Len(fs) :
                   \E i \in 1..Len(fs[k].v) :
                      {fs[k].v[i], fs[k].v[(i % Len(fs[k].v)) + 1]} = {a, b}})

\* The edges, smaller index first, that occur in a number of faces other
\* than 2.
OddEdges(fs) ==
    {e \in UsedIndices(fs) \X UsedIndices(fs) :
        /\ e[1] < e[2]
        /\ FacesWithEdge(fs, e[1], e[2]) \notin {0, 2}}

\* The first of them: the one with the smallest first index, and among
\* those the one with the smallest second index.
FirstOddEdge(fs) ==
    CHOOSE e \in OddEdges(fs) :
        \A d \in OddEdges(fs) :
            e[1] < d[1] \/ (e[1] = d[1] /\ e[2] <= d[2])

\* C12: when some ring edge occurs in a number of faces other than 2,
\* is_watertight(msg) on a mesh whose water tightness is to be recomputed
\* returns false and msg names the first such edge in key order, as a
\* boundary edge if it occurs in one face and as a non-manifold edge
\* otherwise, whatever else is wrong with the mesh.
C12_EdgeReported ==
    [][(/\ call'.op = "is_watertight"
        /\ call'.err = "none"
        /\ recalc_water_tightness_
        /\ OddEdges(faces) # {})
       => LET e == FirstOddEdge(faces)
          IN  /\ call'.ret = FALSE
              /\ call'.msg =
                   <<"Edge", e[1], e[2],
                     IF FacesWithEdge(faces, e[1], e[2]) = 1
                     THEN "Boundary edge" ELSE "Non-manifold edge">>]_vars

\* is_watertight has reported an edge of three faces, the first of several
\* edges that do not occur in two faces.
C12_Witness ==
    /\ call.op = "is_watertight"
    /\ call.err = "none"
    /\ call.pre.recalc[3]
    /\ Len(call.msg) = 4
    /\ call.msg[4] = "Non-manifold edge"
    /\ FacesWithEdge(faces, call.msg[2], call.msg[3]) = 3
    /\ Cardinality(OddEdges(faces)) > 1

(* ------------------- C13: vertices of the surface ---------------------- *)

\* The faces of fs that name vertex i, without it.
Around(fs, i) ==
    LET inc == SelectSeq(fs, LAMBDA f : i \in Range(f.v))
    IN  [k \in 1..Len(inc) |->
           [v |-> SelectSeq(inc[k].v, LAMBDA x : x # i)]]

\* The faces around vertex i are not connected: there are some, and a chain
\* of shared indices does not join them all.  The dense renumbering leaves
\* no index without a face.
NonManifold(fs, i) ==
    /\ Around(fs, i) # <<>>
    /\ Grow(Around(fs, i), {1}) # 1..Len(Around(fs, i))

\* C13: when every edge occurs in exactly two faces, is_watertight(msg) on a
\* mesh whose water tightness is to be recomputed returns false with a
\* message that names vertex i as non-manifold exactly when i is the
\* smallest vertex whose incident faces, taken without i, are not connected;
\* a vertex of no face is never named.
C13_VertexReported ==
    [][(/\ call'.op = "is_watertight"
        /\ call'.err = "none"
        /\ recalc_water_tightness_
        /\ OddEdges(faces) = {})
       => LET bad == {i \in 0..(Len(vertices) - 1) : NonManifold(faces, i)}
          IN  \A i \in 0..(Len(vertices) - 1) :
                 (/\ ~call'.ret
                  /\ call'.msg = <<"Vertex", i, "Non-manifold vertex">>)
                 <=> (i \in bad /\ \A j \in bad : i <= j)]_vars

(* ------------------ C14: the message of is_watertight ------------------ *)

\* The reasons check_water_tightness names.
Reasons ==
    {"Boundary edge", "Non-manifold edge", "Non-manifold vertex",
     "Self intersection"}

\* C14: after every call of is_watertight(msg) that returns false, msg holds
\* the message with the reason of the violation, whatever was called on the
\* mesh before.
C14_ReasonGiven ==
    (call.op = "is_watertight" /\ call.err = "none" /\ ~call.ret)
    => (call.msg # <<>> /\ call.msg[Len(call.msg)] \in Reasons)

(* -------------- C15: area, volume and the writer copy ------------------ *)

\* C15: surface_area, volume and the STL writer, called on a valid mesh that
\* is not triangulated, leave its vertex arrays, its face container and
\* is_triangulated unchanged.
C15_CopyOnQuery ==
    [][(/\ call'.op \in {"surface_area", "volume", "stl_bin"}
        /\ ~is_triangulated_
        /\ FirstInvalid = 0)
       => UNCHANGED <<arrays, faces, is_triangulated_>>]_vars

\* surface_area has returned the areas of three triangles for a mesh that
\* still holds one face of five vertices.
C15_Witness ==
    /\ call.op = "surface_area"
    /\ call.err = "none"
    /\ Len(call.val) = 3
    /\ ~is_triangulated_
    /\ Len(faces) = 1
    /\ Len(faces[1].v) = 5

(* ------------------ C16: operations on an invalid mesh ----------------- *)

\* The faces of the container that fail a check of Face::validate.
InvalidFaces == {i \in 1..Len(faces) : FirstFailingCheck(faces[i]) # "ok"}

\* The call threw the error of the first invalid face, as validate words
\* it, and changed nothing.
ThrewValidationError ==
    LET i == CHOOSE j \in InvalidFaces : \A k \in InvalidFaces : j <= k
    IN  /\ call'.err = FirstFailingCheck(faces[i])
        /\ call'.errface = faces[i].v
        /\ UNCHANGED <<arrays, faces, is_triangulated_, is_validated_,
                       cached, recalc>>

Queries ==
    {"surface_area", "volume", "is_connected", "is_convex", "is_watertight"}

\* C16 as stated: on a mesh with an invalid face each of triangulate,
\* convexify_faces, surface_area, volume, is_connected, is_convex and
\* is_watertight throws the error validate would throw and leaves the faces,
\* the arrays, is_triangulated, is_validated, the cached values and the
\* recompute flags unchanged.
C16_InvalidFaceRaises ==
    [][(/\ call'.op \in Queries \cup {"triangulate", "convexify_faces"}
        /\ InvalidFaces # {})
       => ThrewValidationError]_vars

\* C16 as the code has it: on a mesh that is not marked validated and holds
\* an invalid face the five queries throw the error validate would throw
\* and change nothing; triangulate and convexify_faces do so unless the mesh
\* is marked triangulated, and then they return and change nothing.
C16_InvalidFaceRaisesUnlessTriangulated ==
    [][(/\ call'.op \in Queries \cup {"triangulate", "convexify_faces"}
        /\ InvalidFaces # {}
        /\ ~is_validated_)
       => IF call'.op \in Queries \/ ~is_triangulated_
          THEN ThrewValidationError
          ELSE /\ call'.err = "none"
               /\ UNCHANGED <<arrays, faces, is_triangulated_, is_validated_,
                              cached, recalc>>]_vars

\* triangulate has thrown for the second face of a mesh whose first face is
\* the quadrilateral.
C16_Witness ==
    /\ call.op = "triangulate"
    /\ call.err # "none"
    /\ ~is_triangulated_
    /\ Len(faces) >= 2
    /\ Len(faces[1].v) = 4
    /\ call.errface = faces[2].v

(* ------------------ C17: faces of a mesh that ended -------------------- *)

Expired == "The associated Model object has been expired."

\* A face with at least three vertex indices whose normal is neither set
\* nor cached.
NeedsOwner(f) == Len(f.v) >= 3 /\ ~f.nset

\* C17: Face::normal on a face of at least three vertex indices with no set
\* or cached normal, whose mesh has ended, throws the ModelError 'The
\* associated Model object has been expired.' and leaves the face as it
\* was; Model::add_face with such a face throws the same error and leaves
\* the mesh as it was; and neither call throws that error for a face whose
\* mesh is alive.
C17_ExpiredOwner ==
    [][/\ (/\ call'.op \in {"normal", "add_face"}
           /\ NeedsOwner(call.arg)
           /\ call.arg.model \notin alive)
          => /\ call'.err = Expired
             /\ call'.arg = call.arg
             /\ UNCHANGED <<arrays, faces, cached, recalc, is_triangulated_,
                            is_validated_, alive>>
       /\ (/\ call'.op \in {"normal", "add_face"}
           /\ call.arg.model \in alive)
          => call'.err # Expired]_vars

\* Face::normal threw for a quadrilateral of the other mesh after that mesh
\* had ended, while this mesh holds vertices and a face.
C17_Witness ==
    /\ call.op = "normal"
    /\ call.err = Expired
    /\ call.arg.model = Other
    /\ Len(call.arg.v) = 4
    /\ Other \notin alive
    /\ Len(faces) = 1
    /\ Len(vertices) = 4

(* ---------------- C18: the index sequences of a face ------------------- *)

\* Whether no entry of sequence s occurs twice.
NoRepeat(s) == \A j, k \in 1..Len(s) : s[j] = s[k] => j = k

\* Whether sequence t is what adding index i makes of sequence s: s itself
\* if s holds i, and s with i at its end otherwise.
AddedOnce(s, i, t) ==
    IF \E k \in 1..Len(s) : s[k] = i THEN t = s
    ELSE /\ Len(t) = Len(s) + 1
         /\ t[Len(t)] = i
         /\ \A k \in 1..Len(s) : t[k] = s[k]

\* C18: Face::add_vertex and Face::add_texture_vertex leave their sequence
\* unchanged when it holds the index already, and otherwise append the index
\* and make the sequence one longer; neither touches the other sequence, and
\* no index occurs twice in either sequence of a face that was filled by
\* these calls.
C18_UniqueInOrder ==
    [][/\ call'.op = "Face::add_vertex"
          => /\ AddedOnce(call.arg.v, call'.val[1], call'.arg.v)
             /\ call'.arg.vt = call.arg.vt
       /\ call'.op = "Face::add_texture_vertex"
          => /\ AddedOnce(call.arg.vt, call'.val[1], call'.arg.vt)
             /\ call'.arg.v = call.arg.v
       /\ NoRepeat(call'.arg.v)
       /\ NoRepeat(call'.arg.vt)]_vars

\* Face::add_vertex was called with an index the face holds at a place
\* before its last, on a face of three vertex and two texture indices.
C18_Witness ==
    /\ call.op = "Face::add_vertex"
    /\ Len(call.arg.v) = 3
    /\ Len(call.arg.vt) = 2
    /\ call.val[1] = call.arg.v[1]
    /\ call.arg.v[1] > call.arg.v[2]

(* ------------------------ C19: Bitset::all ----------------------------- *)

\* Whether operator[] returns true for every index of bitset bs.
EveryBitSet(bld, bs) ==
    \A i \in 0..(bs.bitcnt_ - 1) : BitsetGet(bld, bs, i)

\* C19: Bitset::all returns true exactly when every bit of the bitset is
\* set, as operator[] reports it, whatever the bit count; and on a bitset
\* that was just constructed or reset, all returns false, any returns false
\* and none returns true.
C19_AllIffEverySet ==
    [][/\ call'.op = "all"
          => (call'.ret <=> EveryBitSet(call.val.bld, call.val.bs))
       /\ (call.op \in {"Bitset", "reset"} /\ call'.op = "all")
          => ~call'.ret
       /\ (call.op \in {"Bitset", "reset"} /\ call'.op = "any")
          => ~call'.ret
       /\ (call.op \in {"Bitset", "reset"} /\ call'.op = "none")
          => call'.ret]_vars

(* ------------------ C20: the errors of a bitset ------------------------ *)

\* C20: operator[], set and flip with an index that is not below the bit
\* count throw std::out_of_range, and the operators |, &, ^, |=, &= and ^=
\* with an operand of another bit count throw the std::logic_error 'The two
\* Bitset must have the same size.'; the bitset is as it was before in both
\* cases, and the calls throw in no other case.
C20_ErrorsLeaveUnchanged ==
    [][/\ call'.op \in {"[]", "set", "flip"}
          => /\ call'.err = IF call'.val.ind >= call.val.bs.bitcnt_
                            THEN OutOfRange ELSE "none"
             /\ call'.err # "none" => call'.val.bs = call.val.bs
       /\ call'.op \in {"|", "&", "^", "|=", "&=", "^="}
          => /\ call'.err =
                    IF call'.val.other.bitcnt_ # call.val.bs.bitcnt_
                    THEN SizeMismatch ELSE "none"
             /\ call'.err # "none" => call'.val.bs = call.val.bs]_vars

\* operator|= threw for an operand of one bit more on a bitset of WordS
\* bits that has bits set.
C20_Witness ==
    /\ call.op = "|="
    /\ call.err = SizeMismatch
    /\ call.val.bs.bitcnt_ = WordS
    /\ call.val.other.bitcnt_ = WordS + 1
    /\ call.val.bs.words_ # {}

(* ---------------- C21: the parts of a concave face --------------------- *)

\* The vertex index sets of the faces of container fs.
IndexSets(fs) == {Range(fs[i].v) : i \in 1..Len(fs)}

\* C21: convexify_faces on a mesh that holds a single planar simple concave
\* face over all its vertices leaves faces of at least 3 ring vertices each
\* whose index sets together hold every index of the ring; for the ring
\* 0..5 of "Only one concavity" they are {0,1,4,5} and {1,2,3,4}, and for
\* the ring 0..7 of "More concavities" {7,0,1,4}, {1,2,3,4} and {6,7,4,5}.
C21_ConvexPartition ==
    [][(/\ call'.op = "convexify_faces"
        /\ call'.err = "none"
        /\ ~is_triangulated_
        /\ Len(faces) = 1
        /\ vertices \in ConcaveShapes)
       => /\ \A i \in 1..Len(faces') : Len(faces'[i].v) >= 3
          /\ UNION IndexSets(faces') = Range(faces[1].v)
          /\ (vertices = OneConcavity /\ faces[1].v = Rotated(6, 0, 1))
             => IndexSets(faces') = {{0, 1, 4, 5}, {1, 2, 3, 4}}
          /\ (vertices = MoreConcavities /\ faces[1].v = Rotated(8, 0, 1))
             => IndexSets(faces') =
                    {{7, 0, 1, 4}, {1, 2, 3, 4}, {6, 7, 4, 5}}]_vars

(* ------------ C22: the auxiliary indices of produced faces ------------- *)

\* Whether the auxiliary sequence ga of a face with ring gv is the one of
\* the parent face with ring pv and auxiliary sequence pa, taken at the
\* ring positions the vertices of gv come from: empty if pa is empty.
TakenFrom(pv, pa, gv, ga) ==
    IF pa = <<>> THEN ga = <<>>
    ELSE /\ Len(ga) = Len(gv)
         /\ \A k \in 1..Len(gv) :
               \E p \in 1..Len(pv) : pv[p] = gv[k] /\ pa[p] = ga[k]

\* C22: every face convexify_faces or triangulate puts into the container
\* has the texture and normal indices of the face it was cut from, at the
\* ring positions its vertices were taken from, and none if that face has
\* none; Face::validate accepts it.
C22_AuxCarried ==
    [][(/\ call'.op \in {"convexify_faces", "triangulate"}
        /\ call'.err = "none"
        /\ Len(faces) = 1)
       => \A i \in 1..Len(faces') :
             /\ TakenFrom(faces[1].v, faces[1].vt,
                          faces'[i].v, faces'[i].vt)
             /\ TakenFrom(faces[1].v, faces[1].vn,
                          faces'[i].v, faces'[i].vn)
             /\ FaceValidate(faces'[i], TRUE, Len(vertices),
                             Len(texture_vertices), Len(vertex_normals))
                  = "ok"]_vars

(* ------------------- C23: the mesh of a stored face -------------------- *)

\* C23: every face in the container of this mesh points at this mesh, and
\* every face in the container of a copy made by Model::create(other), as
\* it was made or after its triangulation, points at the copy.
C23_FacesPointAtOwner ==
    /\ \A i \in 1..Len(faces) : faces[i].model = This
    /\ call.op \in {"create(other)", "copy->triangulate"}
       => \A i \in 1..Len(call.val) : call.val[i].model = Copy

\* A copy was made of a mesh that holds three faces, one of them cut from a
\* longer face by convexify_faces.
C23_Witness ==
    /\ call.op = "create(other)"
    /\ Len(call.val) = 3
    /\ Len(faces) = 3
    /\ \E i \in 1..Len(faces) : Len(faces[i].v) = 2

(* ------------- C24: vertex normals under transform --------------------- *)

\* Whether matrix t is diag(sx, sy, sz, 1) with no factor 0.
IsScaling(t) ==
    /\ \A r, c \in 1..4 : r # c => t[r][c] = 0
    /\ \A c \in 1..3 : t[c][c] # 0
    /\ t[4][4] = 1

\* Whether matrix t is a translation.
IsTranslation(t) ==
    /\ \A r \in 1..4, c \in 1..3 : t[r][c] = (IF r = c THEN 1 ELSE 0)
    /\ t[4][4] = 1

\* C24 as stated: transform with diag(sx, sy, sz, 1) takes every vertex
\* normal (nx, ny, nz) to (nx/sx, ny/sy, nz/sz), and a translation leaves
\* every vertex normal as it was.
C24_NormalsDivided ==
    [][call'.op = "transform"
       => /\ IsScaling(call'.val)
             => /\ Len(vertex_normals') = Len(vertex_normals)
                /\ \A i \in 1..Len(vertex_normals) : \A c \in 1..3 :
                      vertex_normals'[i][c] * call'.val[c][c]
                        = vertex_normals[i][c]
          /\ IsTranslation(call'.val)
             => vertex_normals' = vertex_normals]_vars

\* C24: transform with diag(sx, sy, sz, 1) takes every vertex normal
\* (nx, ny, nz) to (sx nx, sy ny, sz nz), the product with the matrix, and a
\* translation leaves every vertex normal as it was.
C24_NormalsMultiplied ==
    [][call'.op = "transform"
       => /\ IsScaling(call'.val)
             => /\ Len(vertex_normals') = Len(vertex_normals)
                /\ \A i \in 1..Len(vertex_normals) : \A c \in 1..3 :
                      vertex_normals'[i][c]
                        = call'.val[c][c] * vertex_normals[i][c]
          /\ IsTranslation(call'.val)
             => vertex_normals' = vertex_normals]_vars

\* transform was called with a translation after a scaling had doubled the
\* first component of a vertex normal.
C24_Witness ==
    /\ call.op = "transform"
    /\ IsTranslation(call.val)
    /\ call.val # Scaling(1, 1, 1)
    /\ Len(vertices) > 0
    /\ \E i \in 1..Len(vertex_normals) : vertex_normals[i][1] = -2

(* ------------- C25: area and volume of the unit cube ------------------- *)

\* C25: on the unit cube surface_area adds up twelve triangles, each with a
\* normal of norm 1 and so of area 1/2, which is 6 in all, and volume adds
\* up determinants whose sum is 6, a sixth of which is 1.
C25_UnitCube ==
    IsUnitCube
    => /\ call.op = "surface_area"
          => /\ call.err = "none"
             /\ Len(call.val) = 12
             /\ \A k \in 1..Len(call.val) : call.val[k] = 1
       /\ call.op = "volume"
          => /\ call.err = "none"
             /\ call.val = <<6>>

\* volume has returned on the unit cube whose sides were added with rings
\* that start at different corners.
C25_Witness ==
    /\ IsUnitCube
    /\ call.op = "volume"
    /\ call.err = "none"
    /\ \E i, j \in 1..6 : faces[i].v[1] = 3 /\ faces[j].v[1] = 7

(* ------------- C26: the cached connectivity is never stale ------------- *)

\* C26: whenever is_connected returns on a valid mesh that add_vertex,
\* add_face, convexify_faces and triangulate have built, it returns what
\* check_connectivity gives for the faces and vertices the mesh holds.
C26_NeverStale ==
    [][(call'.op = "is_connected" /\ call'.err = "none")
       => call'.ret \in CheckConnectivity(faces, Len(vertices))]_vars

(* ------------- C27: a validated mesh holds valid faces only ------------ *)

\* C27: whenever the mesh is marked validated, Face::validate passes for
\* every face of its container.
C27_ValidatedMeansValid == is_validated_ => FirstInvalid = 0

(* ------------- C28: the triples of the ear stepping -------------------- *)

\* Whether the ring positions a, b, c of a ring of n vertices are three
\* different positions met in this order on one turn round the ring.
InRingOrder(n, a, b, c) ==
    /\ Cardinality({a, b, c}) = 3
    /\ ((b - a + n) % n) + ((c - b + n) % n) + ((a - c + n) % n) = n

\* The j-th triple of a ring of n vertices when the two triples take turns,
\* the one that starts at (0,1,2) first: after k steps of its own it is at
\* (n - k, k + 1, k + 2), the other one at (n - 1 - k, n - k, k + 2).
TurnTriple(n, j) ==
    LET k == (j - 1) \div 2
    IN  IF j % 2 = 1 THEN <<(n - k) % n, k + 1, k + 2>>
        ELSE <<n - 1 - k, (n - k) % n, k + 2>>

\* C28: for every ring of n > 3 vertices, each triple the ear stepping of
\* triangulate emits holds three different ring positions in the cyclic
\* order of the ring, the two triples take turns, (0,1,2) first and
\* (n-1,0,2) second, no triple is emitted twice, and once the loop has
\* ended the triples are those that triangulate cuts the face into.
C28_EarTriples ==
    call.op \in {"triangulate:face", "triangulate:ear"}
    => LET n == call.val.fvcnt
           e == call.val.emitted
       IN  /\ n > 3
           /\ \A j \in 1..Len(e) :
                 /\ InRingOrder(n, e[j][1], e[j][2], e[j][3])
                 /\ \A c \in 1..3 : e[j][c] \in 0..(n - 1)
                 /\ e[j] = TurnTriple(n, j)
           /\ \A j, k \in 1..Len(e) :
                 j # k => {e[j][1], e[j][2], e[j][3]}
                            # {e[k][1], e[k][2], e[k][3]}
           /\ ~call.val.more => e = TriPositions(n)

\* The loop has ended on a ring of 9 vertices with the seven triangles of
\* the test.
C28_Witness ==
    /\ call.op = "triangulate:ear"
    /\ ~call.val.more
    /\ call.val.emitted =
          << <<0, 1, 2>>, <<8, 0, 2>>, <<8, 2, 3>>, <<7, 8, 3>>,
             <<7, 3, 4>>, <<6, 7, 4>>, <<6, 4, 5>> >>

(* ------------- C29: convexify_faces terminates ------------------------- *)

\* C29: on a valid mesh the queue of convexify_faces, once it holds a face
\* that is no triangle, is empty in the end.
C29_QueueEmpties == QueueRunning ~> QueueEmpty

\* The queue is empty after an edge that is no edge of the face was marked
\* visited: the face was split.
C29_Witness ==
    /\ QueueEmpty
    /\ Len(faces) = 1
    /\ \E e \in call.val.visited :
          \A i \in 0..(Len(faces[1].v) - 1) :
             /\ e # RingEdge(faces[1].v, i)
             /\ <<e[2], e[1]>> # RingEdge(faces[1].v, i)

(* ------------- C30: flip and set change one bit ------------------------ *)

\* C30: flip(i) and set(i, val) that return change bit i alone: afterwards
\* operator[](i) gives the opposite of what it gave (flip) or val (set), and
\* operator[](j) gives what it gave before for every other index j of the
\* bitset.
C30_OneBitChanges ==
    [][(call'.op \in {"flip", "set"} /\ call'.err = "none")
       => LET bld == call'.val.bld
              old == call.val.bs
              new == call'.val.bs
              i   == call'.val.ind
          IN  /\ call'.op = "flip"
                 => BitsetGet(bld, new, i) # BitsetGet(bld, old, i)
              /\ call'.op = "set"
                 => \E val \in BOOLEAN :
                       /\ new = BitsetSet(bld, old, i, val)
                       /\ BitsetGet(bld, new, i) = val
              /\ \A j \in 0..(old.bitcnt_ - 1) :
                    j # i => BitsetGet(bld, new, j) = BitsetGet(bld, old, j)]_vars

====
